---- MODULE Spec2Model ----
(***************************************************************************)
(* Model of the spending categorizer: the categorization engine, the        *)
(* transaction normalizer and CSV reader (statementLocal), and the App      *)
(* component's record collection, merchant mapping and import handlers.     *)
(*                                                                          *)
(* A JavaScript string is a sequence of one-character strings, so that      *)
(* trimming, case folding, substring search and prefix tests are computed   *)
(* character by character as the code computes them.  Category labels are   *)
(* only ever compared for equality and are kept as atomic strings.          *)
(***************************************************************************)
EXTENDS Integers, Sequences, FiniteSets, TLC

VARIABLES
  \* the App component (App.tsx)
  transactions,   \* the record collection, newest import first
  userMappings,   \* the merchant mapping: entries in insertion order
  selectedMonth,  \* the month key "YYYY-MM"
  isProcessing,   \* an upload is running; the upload control is disabled
  error,          \* the message shown, or Null
  localStorage,   \* the extraction cache entries of localStorage
  upload,         \* the running handleFileUpload call: its position and closure
  now,            \* the reading of Date.now()
  \* history
  origin,         \* for each transaction, the source and record it came from
  taught,         \* the latest category the user chose for each merchant
  lastImport,     \* the last finished import
  nImports,       \* imports started
  nEdits,         \* recategorizations, deletions and clears done
  rendered,       \* the save effects of App: their two items and their last dependencies
  \* the PaycheckCalculator component
  calc,           \* its state, its running handlers and its localStorage slot
  \* a call of one of the pure functions
  arg,            \* its inputs
  res,            \* its result
  pc              \* "ready" before the call, "done" after it

appMain == <<transactions, userMappings, selectedMonth, isProcessing, error, localStorage,
             upload, now, origin, taught, lastImport, nImports, nEdits>>
appVars == <<appMain, rendered, calc>>
sideVars == <<rendered, calc>>
fnVars == <<arg, res, pc>>
vars == <<appVars, fnVars>>

\* undefined / null / a missing property
Null == "null"

Min(S) == CHOOSE x \in S : \A y \in S : x <= y
Max(S) == CHOOSE x \in S : \A y \in S : x >= y

(***************************************************************************)
(* Characters                                                              *)
(***************************************************************************)
UpperChars == <<"A","B","C","D","E","F","G","H","I","J","K","L","M","N","O","P","Q","R","S","T","U","V","W","X","Y","Z">>
LowerChars == <<"a","b","c","d","e","f","g","h","i","j","k","l","m","n","o","p","q","r","s","t","u","v","w","x","y","z">>
DigitChars == <<"0","1","2","3","4","5","6","7","8","9">>

Range(s) == {s[i] : i \in DOMAIN s}

UpperSet == Range(UpperChars)
LowerSet == Range(LowerChars)
DigitSet == Range(DigitChars)

\* \s of a JavaScript regular expression, and the characters trim() strips
IsSpace(c) == c \in {" ", "\t", "\n", "\r"}
\* \d
IsDigit(c) == c \in DigitSet
\* \w
IsWordChar(c) == c \in UpperSet \cup LowerSet \cup DigitSet \cup {"_"}

toLowerCaseChar(c) ==
  IF c \in UpperSet
    THEN LowerChars[CHOOSE i \in DOMAIN UpperChars : UpperChars[i] = c]
    ELSE c

\* String.prototype.toLowerCase
toLowerCase(s) == [i \in 1..Len(s) |-> toLowerCaseChar(s[i])]

\* String.prototype.trim
trim(s) ==
  LET keep == {i \in 1..Len(s) : ~IsSpace(s[i])}
  IN IF keep = {} THEN <<>> ELSE SubSeq(s, Min(keep), Max(keep))

\* String.prototype.startsWith
startsWith(s, p) == Len(p) <= Len(s) /\ SubSeq(s, 1, Len(p)) = p

\* s has k at position i
occursAt(s, k, i) == i >= 1 /\ i + Len(k) - 1 <= Len(s) /\ SubSeq(s, i, i + Len(k) - 1) = k

\* String.prototype.includes
includes(s, k) == \E i \in 1..(Len(s) + 1) : occursAt(s, k, i)

\* s.replace(/\s+/g, ' '): every maximal run of whitespace becomes one space
collapseWhitespace(s) ==
  LET marked == [i \in DOMAIN s |->
                   IF ~IsSpace(s[i]) THEN s[i]
                   ELSE IF i > 1 /\ IsSpace(s[i - 1]) THEN "rest of a run" ELSE " "]
  IN SelectSeq(marked, LAMBDA c : c # "rest of a run")

(***************************************************************************)
(* types.ts                                                                *)
(***************************************************************************)
DEFAULT_CATEGORIES ==
  << "Food & Groceries", "Eating Out", "Transport & Fuel", "Health & Wellness",
     "Shopping", "Entertainment", "Utilities & Bills", "Rent/Mortgage", "Travel",
     "Unknown", "Subscriptions", "Education", "Payment/Credit" >>

CategorySet == Range(DEFAULT_CATEGORIES)

(***************************************************************************)
(* statementLocal: the categorization engine                               *)
(***************************************************************************)
normalizeMerchant(merchant) == trim(collapseWhitespace(merchant))

\* A JavaScript object used as a dictionary: a sequence of entries in
\* insertion order, no key twice.
get(um, k) ==
  IF \E i \in DOMAIN um : um[i].key = k
    THEN um[CHOOSE i \in DOMAIN um : um[i].key = k].category
    ELSE Null

\* truthiness of a string-or-undefined value
Truthy(v) == v # Null /\ v # ""

\* findMappedCategory without the exact lookup: the first key that is equal
\* up to case decides
findMappedCategoryAnyCase(merchant, um) ==
  LET lower == toLowerCase(normalizeMerchant(merchant))
      hits == {i \in DOMAIN um : toLowerCase(um[i].key) = lower}
  IN IF hits # {} THEN um[Min(hits)].category ELSE Null

findMappedCategory(merchant, um) ==
  LET normalizedMerchant == normalizeMerchant(merchant)
      lower == toLowerCase(normalizedMerchant)
      hits == {i \in DOMAIN um : toLowerCase(um[i].key) = lower}
  IN IF Truthy(get(um, normalizedMerchant))
       THEN get(um, normalizedMerchant)
       ELSE IF hits # {} THEN um[Min(hits)].category ELSE Null

\* the keyword rule table of keywordCategory, in the order of the code
rules ==
  <<
    [category |-> "Food & Groceries",
     keywords |-> <<
        <<"g","r","o","c","e","r","y">>,
        <<"s","u","p","e","r","m","a","r","k","e","t">>,
        <<"m","a","r","k","e","t">>,
        <<"w","h","o","l","e"," ","f","o","o","d","s">>,
        <<"t","r","a","d","e","r"," ","j","o","e">>,
        <<"k","r","o","g","e","r">>,
        <<"s","a","f","e","w","a","y">>,
        <<"a","l","d","i">>,
        <<"p","u","b","l","i","x">>,
        <<"c","o","s","t","c","o">>,
        <<"w","a","l","m","a","r","t">>,
        <<"t","a","r","g","e","t">> >>],
    [category |-> "Eating Out",
     keywords |-> <<
        <<"r","e","s","t","a","u","r","a","n","t">>,
        <<"c","a","f","e">>,
        <<"c","o","f","f","e","e">>,
        <<"s","t","a","r","b","u","c","k","s">>,
        <<"c","h","i","p","o","t","l","e">>,
        <<"m","c","d","o","n","a","l","d">>,
        <<"d","o","o","r","d","a","s","h">>,
        <<"u","b","e","r"," ","e","a","t","s">>,
        <<"g","r","u","b","h","u","b">> >>],
    [category |-> "Transport & Fuel",
     keywords |-> <<
        <<"u","b","e","r">>,
        <<"l","y","f","t">>,
        <<"s","h","e","l","l">>,
        <<"e","x","x","o","n">>,
        <<"c","h","e","v","r","o","n">>,
        <<"b","p">>,
        <<"v","a","l","e","r","o">>,
        <<"g","a","s">>,
        <<"f","u","e","l">>,
        <<"p","a","r","k","i","n","g">>,
        <<"t","o","l","l">> >>],
    [category |-> "Utilities & Bills",
     keywords |-> <<
        <<"u","t","i","l","i","t","y">>,
        <<"e","l","e","c","t","r","i","c">>,
        <<"w","a","t","e","r">>,
        <<"i","n","t","e","r","n","e","t">>,
        <<"v","e","r","i","z","o","n">>,
        <<"c","o","m","c","a","s","t">>,
        <<"x","f","i","n","i","t","y">>,
        <<"a","t","t">>,
        <<"t","m","o","b","i","l","e">> >>],
    [category |-> "Subscriptions",
     keywords |-> <<
        <<"s","u","b","s","c","r","i","p","t","i","o","n">>,
        <<"n","e","t","f","l","i","x">>,
        <<"s","p","o","t","i","f","y">>,
        <<"h","u","l","u">>,
        <<"d","i","s","n","e","y">>,
        <<"p","r","i","m","e">>,
        <<"a","p","p","l","e",".","c","o","m","/","b","i","l","l">>,
        <<"g","o","o","g","l","e"," ","*">>,
        <<"g","o","o","g","l","e"," ","s","t","o","r","a","g","e">> >>],
    [category |-> "Shopping",
     keywords |-> <<
        <<"a","m","a","z","o","n">>,
        <<"a","m","z","n">>,
        <<"b","e","s","t"," ","b","u","y">>,
        <<"e","b","a","y">>,
        <<"e","t","s","y">>,
        <<"i","k","e","a">> >>],
    [category |-> "Entertainment",
     keywords |-> <<
        <<"m","o","v","i","e">>,
        <<"c","i","n","e","m","a">>,
        <<"t","h","e","a","t","e","r">>,
        <<"t","i","c","k","e","t","m","a","s","t","e","r">>,
        <<"c","o","n","c","e","r","t">> >>],
    [category |-> "Health & Wellness",
     keywords |-> <<
        <<"p","h","a","r","m","a","c","y">>,
        <<"c","v","s">>,
        <<"w","a","l","g","r","e","e","n","s">>,
        <<"f","i","t","n","e","s","s">>,
        <<"g","y","m">>,
        <<"p","l","a","n","e","t"," ","f","i","t","n","e","s","s">> >>],
    [category |-> "Travel",
     keywords |-> <<
        <<"a","i","r","l","i","n","e","s">>,
        <<"d","e","l","t","a">>,
        <<"u","n","i","t","e","d">>,
        <<"a","m","e","r","i","c","a","n"," ","a","i","r","l","i","n","e","s">>,
        <<"h","o","t","e","l">>,
        <<"m","a","r","r","i","o","t","t">>,
        <<"h","i","l","t","o","n">>,
        <<"a","i","r","b","n","b">>,
        <<"e","x","p","e","d","i","a">> >>],
    [category |-> "Education",
     keywords |-> <<
        <<"t","u","i","t","i","o","n">>,
        <<"u","d","e","m","y">>,
        <<"c","o","u","r","s","e","r","a">>,
        <<"c","o","l","l","e","g","e">>,
        <<"u","n","i","v","e","r","s","i","t","y">> >>]
  >>

\* the alternatives of the refund pattern
refundWords ==
  << <<"p","a","y","m","e","n","t">>,
     <<"a","u","t","o","p","a","y">>,
     <<"c","r","e","d","i","t">>,
     <<"r","e","f","u","n","d">>,
     <<"r","e","t","u","r","n","e","d">>,
     <<"r","e","v","e","r","s","a","l">> >>

keywordCategory(merchant) ==
  LET m == toLowerCase(merchant)
      hits == {r \in DOMAIN rules :
                 \E j \in DOMAIN rules[r].keywords : includes(m, rules[r].keywords[j])}
  IN IF hits # {} THEN rules[Min(hits)].category ELSE Null

\* \b at the gap after position p of s (between s[p] and s[p+1])
wordBoundaryAfter(s, p) ==
  LET before == p >= 1 /\ p <= Len(s) /\ IsWordChar(s[p])
      after  == p + 1 <= Len(s) /\ IsWordChar(s[p + 1])
  IN before # after

\* /(payment|autopay|credit|refund|returned|reversal)\b/.test(lower)
refundPattern(lower) ==
  \E w \in DOMAIN refundWords : \E i \in 1..Len(lower) :
    occursAt(lower, refundWords[w], i) /\ wordBoundaryAfter(lower, i + Len(refundWords[w]) - 1)

refundRule(lower, amount) == amount < 0 \/ refundPattern(lower)

\* categorizeTransaction with every non-empty mapped label accepted
categorizeAnyMapped(merchant, amount, um) ==
  LET normalizedMerchant == normalizeMerchant(merchant)
      lower == toLowerCase(normalizedMerchant)
      mapped == findMappedCategory(normalizedMerchant, um)
      byKeyword == keywordCategory(normalizedMerchant)
  IN IF normalizedMerchant = <<>> THEN "Unknown"
     ELSE IF refundRule(lower, amount) THEN "Payment/Credit"
     ELSE IF Truthy(mapped) THEN mapped
     ELSE IF byKeyword # Null THEN byKeyword
     ELSE "Unknown"

\* categorizeTransaction with the mapping consulted before the refund rule
categorizeMappingFirst(merchant, amount, um) ==
  LET normalizedMerchant == normalizeMerchant(merchant)
      lower == toLowerCase(normalizedMerchant)
      mapped == findMappedCategory(normalizedMerchant, um)
      byKeyword == keywordCategory(normalizedMerchant)
  IN IF normalizedMerchant = <<>> THEN "Unknown"
     ELSE IF Truthy(mapped) /\ mapped \in CategorySet THEN mapped
     ELSE IF refundRule(lower, amount) THEN "Payment/Credit"
     ELSE IF byKeyword # Null THEN byKeyword
     ELSE "Unknown"

categorizeTransaction(merchant, amount, um) ==
  LET normalizedMerchant == normalizeMerchant(merchant)
      lower == toLowerCase(normalizedMerchant)
      mapped == findMappedCategory(normalizedMerchant, um)
      byKeyword == keywordCategory(normalizedMerchant)
  IN IF normalizedMerchant = <<>> THEN "Unknown"
     ELSE IF refundRule(lower, amount) THEN "Payment/Credit"
     ELSE IF Truthy(mapped) /\ mapped \in CategorySet THEN mapped
     ELSE IF byKeyword # Null THEN byKeyword
     ELSE "Unknown"

(***************************************************************************)
(* Numbers.  A JavaScript number is modelled by its value in hundredths     *)
(* (40 is 4000, 4.5 is 450), which is exact for amounts of at most two      *)
(* decimals; a value that may also be NaN or missing is tagged.             *)
(***************************************************************************)
Num(n) == [t |-> "number", v |-> n]
NaNv == [t |-> "NaN"]
Undef == [t |-> "undefined"]

Abs(n) == IF n < 0 THEN -n ELSE n

digitValue(c) == (CHOOSE i \in DOMAIN DigitChars : DigitChars[i] = c) - 1

allDigits(s) == \A i \in DOMAIN s : IsDigit(s[i])

\* the value of a non-empty run of decimal digits
RECURSIVE digitsValue(_)
digitsValue(s) ==
  IF s = <<>> THEN 0
  ELSE 10 * digitsValue(SubSeq(s, 1, Len(s) - 1)) + digitValue(s[Len(s)])

\* String(n) of a non-negative integer
RECURSIVE numToStr(_)
numToStr(n) ==
  IF n < 10 THEN <<DigitChars[n + 1]>>
  ELSE numToStr(n \div 10) \o <<DigitChars[(n % 10) + 1]>>

\* s.padStart(2, '0')
padStart2(s) == IF Len(s) < 2 THEN <<"0">> \o s ELSE s

\* parseInt(s, 10) of a string that starts with a digit run (the year of a
\* month key): the value of the leading digits
parseInt10(s) ==
  LET stop == {i \in DOMAIN s : ~IsDigit(s[i])}
      n == IF stop = {} THEN Len(s) ELSE Min(stop) - 1
  IN digitsValue(SubSeq(s, 1, n))

\* s.replace(/[$,]/g, '')
\* the cell as it is, "$" and "," left in
keepMoney(s) == s

stripMoney(s) == SelectSeq(s, LAMBDA c : c \notin {"$", ","})

\* Number(s) of a string, in hundredths: blank is 0; an optional sign, digits
\* and an optional fraction is that number; anything else is NaN
numberOfString(s) ==
  LET v == trim(s)
      signed == v # <<>> /\ v[1] \in {"+", "-"}
      body == IF signed THEN Tail(v) ELSE v
      dots == {i \in DOMAIN body : body[i] = "."}
      intPart == IF dots = {} THEN body ELSE SubSeq(body, 1, Min(dots) - 1)
      fracPart == IF dots = {} THEN <<>> ELSE SubSeq(body, Min(dots) + 1, Len(body))
      frac2 == SubSeq(fracPart \o <<"0", "0">>, 1, 2)
      mag == 100 * digitsValue(intPart) + digitsValue(frac2)
  IN IF v = <<>> THEN Num(0)
     ELSE IF Cardinality(dots) <= 1 /\ allDigits(intPart) /\ allDigits(fracPart)
             /\ Len(intPart) + Len(fracPart) >= 1
       THEN Num(IF signed /\ v[1] = "-" THEN -mag ELSE mag)
       ELSE NaNv

\* Number.isFinite(x) ? x : 0, on a tagged number
finiteOrZero(x) == IF x.t = "number" THEN x.v ELSE 0

(***************************************************************************)
(* statementLocal: the date normalizer                                     *)
(***************************************************************************)
\* a missing string: undefined, or null where a string is expected
NoStr == <<"undefined">>

\* /^\d{4}-\d{2}-\d{2}$/.test(v)
isoDatePattern(v) ==
  /\ Len(v) = 10
  /\ \A i \in {1, 2, 3, 4, 6, 7, 9, 10} : IsDigit(v[i])
  /\ v[5] = "-" /\ v[8] = "-"

\* the pieces of s between the positions in cuts (ascending order)
RECURSIVE splitAt(_, _, _)
splitAt(s, cuts, from) ==
  IF {c \in cuts : c >= from} = {} THEN <<SubSeq(s, from, Len(s))>>
  ELSE LET c == Min({d \in cuts : d >= from})
       IN <<SubSeq(s, from, c - 1)>> \o splitAt(s, cuts, c + 1)

\* the maximal runs of non-whitespace of a trimmed string
RECURSIVE wordsOf(_)
wordsOf(s) ==
  IF s = <<>> THEN <<>>
  ELSE LET sp == {i \in DOMAIN s : IsSpace(s[i])}
       IN IF sp = {} THEN <<s>>
          ELSE <<SubSeq(s, 1, Min(sp) - 1)>>
                 \o wordsOf(trim(SubSeq(s, Min(sp), Len(s))))

monthMap ==
  << [name |-> <<"j","a","n">>, num |-> 1], [name |-> <<"j","a","n","u","a","r","y">>, num |-> 1],
     [name |-> <<"f","e","b">>, num |-> 2], [name |-> <<"f","e","b","r","u","a","r","y">>, num |-> 2],
     [name |-> <<"m","a","r">>, num |-> 3], [name |-> <<"m","a","r","c","h">>, num |-> 3],
     [name |-> <<"a","p","r">>, num |-> 4], [name |-> <<"a","p","r","i","l">>, num |-> 4],
     [name |-> <<"m","a","y">>, num |-> 5],
     [name |-> <<"j","u","n">>, num |-> 6], [name |-> <<"j","u","n","e">>, num |-> 6],
     [name |-> <<"j","u","l">>, num |-> 7], [name |-> <<"j","u","l","y">>, num |-> 7],
     [name |-> <<"a","u","g">>, num |-> 8], [name |-> <<"a","u","g","u","s","t">>, num |-> 8],
     [name |-> <<"s","e","p">>, num |-> 9], [name |-> <<"s","e","p","t">>, num |-> 9],
     [name |-> <<"s","e","p","t","e","m","b","e","r">>, num |-> 9],
     [name |-> <<"o","c","t">>, num |-> 10], [name |-> <<"o","c","t","o","b","e","r">>, num |-> 10],
     [name |-> <<"n","o","v">>, num |-> 11], [name |-> <<"n","o","v","e","m","b","e","r">>, num |-> 11],
     [name |-> <<"d","e","c">>, num |-> 12], [name |-> <<"d","e","c","e","m","b","e","r">>, num |-> 12] >>

\* v.match(/^(\d{1,2})[\/\-](\d{1,2})(?:[\/\-](\d{2,4}))?$/): the groups, or <<>>
matchMdy(v) ==
  LET seps == {i \in DOMAIN v : v[i] \in {"/", "-"}}
      g == splitAt(v, seps, 1)
  IN IF /\ Cardinality(seps) \in {1, 2}
        /\ \A k \in DOMAIN g : allDigits(g[k])
        /\ Len(g[1]) \in {1, 2} /\ Len(g[2]) \in {1, 2}
        /\ (Len(g) = 3 => Len(g[3]) \in {2, 3, 4})
       THEN g ELSE <<>>

\* v.match(/^([A-Za-z]{3,9})\s+(\d{1,2})(?:\s+(\d{4}))?$/): the groups, or <<>>
matchMon(v) ==
  LET g == wordsOf(v)
  IN IF /\ Len(g) \in {2, 3}
        /\ Len(g[1]) \in 3..9 /\ \A i \in DOMAIN g[1] : g[1][i] \in UpperSet \cup LowerSet
        /\ Len(g[2]) \in {1, 2} /\ allDigits(g[2])
        /\ (Len(g) = 3 => Len(g[3]) = 4 /\ allDigits(g[3]))
       THEN g ELSE <<>>

isoString(year, month, day) ==
  numToStr(year) \o <<"-">> \o padStart2(numToStr(month)) \o <<"-">> \o padStart2(numToStr(day))

\* a two-digit year taken for a year of the last century
expandYear1900(y) == IF y < 100 THEN 1900 + y ELSE y

\* year = y < 100 ? 2000 + y : y
expandYear(y) == IF y < 100 THEN 2000 + y ELSE y

toIsoDate(value, fallbackYear) ==
  LET v == trim(value)
      mdy == matchMdy(v)
      mon == matchMon(v)
      y == digitsValue(mdy[3])
      named == {k \in DOMAIN monthMap : monthMap[k].name = toLowerCase(mon[1])}
  IN IF v = <<>> THEN NoStr
     ELSE IF isoDatePattern(v) THEN v
     ELSE IF mdy # <<>>
       THEN isoString(IF Len(mdy) = 3 THEN expandYear(y) ELSE fallbackYear,
                      digitsValue(mdy[1]), digitsValue(mdy[2]))
     ELSE IF mon # <<>>
       THEN IF named = {} THEN NoStr
            ELSE isoString(IF Len(mon) = 3 THEN digitsValue(mon[3]) ELSE fallbackYear,
                           monthMap[Min(named)].num, digitsValue(mon[2]))
     ELSE NoStr

(***************************************************************************)
(* statementLocal: the CSV reader                                          *)
(***************************************************************************)
blank(s) == trim(s) = <<>>

\* a row emitted whatever its fields hold
emitRowAlways(rows, row) == Append(rows, row)

\* a row is emitted when one of its fields is not blank
emitRow(rows, row) ==
  IF \E k \in DOMAIN row : ~blank(row[k]) THEN Append(rows, row) ELSE rows

\* one pass of the body of parseCsv's for loop, at 1-based position st.i; the
\* state holds the rows emitted so far, the fields of the open row, the open
\* field and the quote state
csvStep(text, st) ==
  LET i == st.i
      char == text[i]
      next == IF i + 1 <= Len(text) THEN text[i + 1] ELSE Null
  IN IF i > Len(text) THEN st
     ELSE IF char = "\"" /\ st.inQuotes /\ next = "\""
       THEN [st EXCEPT !.field = Append(@, "\""), !.i = i + 2]
     ELSE IF char = "\""
       THEN [st EXCEPT !.inQuotes = ~@, !.i = i + 1]
     ELSE IF ~st.inQuotes /\ char \in {",", "\t"}
       THEN [st EXCEPT !.row = Append(@, st.field), !.field = <<>>, !.i = i + 1]
     ELSE IF ~st.inQuotes /\ char \in {"\n", "\r"}
       THEN [st EXCEPT !.rows = emitRow(@, Append(st.row, st.field)),
                       !.row = <<>>, !.field = <<>>,
                       !.i = IF char = "\r" /\ next = "\n" THEN i + 2 ELSE i + 1]
     ELSE [st EXCEPT !.field = Append(@, char), !.i = i + 1]

\* k passes of the loop body (a pass beyond the end of the text does nothing)
RECURSIVE csvLoop(_, _, _)
csvLoop(text, st, k) ==
  IF k = 0 THEN st
  ELSE IF k = 1 THEN csvStep(text, st)
  ELSE LET mid == csvLoop(text, st, k \div 2)
       IN IF mid.i > Len(text) THEN mid ELSE csvLoop(text, mid, k - (k \div 2))

parseCsv(text) ==
  LET st == csvLoop(text, [i |-> 1, rows |-> <<>>, row |-> <<>>, field |-> <<>>,
                           inQuotes |-> FALSE], Len(text))
  IN emitRow(st.rows, Append(st.row, st.field))

\* the 0-based index of the first candidate that is a header, or -1
pickHeaderIndex(headers, candidates) ==
  LET normalized == [k \in DOMAIN headers |-> trim(toLowerCase(headers[k]))]
      found == {c \in DOMAIN candidates : \E k \in DOMAIN normalized : normalized[k] = candidates[c]}
  IN IF found = {} THEN -1
     ELSE Min({k \in DOMAIN normalized : normalized[k] = candidates[Min(found)]}) - 1

dateHeaders == << <<"d","a","t","e">>, <<"t","r","a","n","s","a","c","t","i","o","n"," ","d","a","t","e">>, <<"p","o","s","t","e","d"," ","d","a","t","e">>, <<"t","r","a","n","s"," ","d","a","t","e">> >>
merchantHeaders == << <<"m","e","r","c","h","a","n","t">>, <<"d","e","s","c","r","i","p","t","i","o","n">>, <<"n","a","m","e">>, <<"m","e","m","o">> >>
amountHeaders == << <<"a","m","o","u","n","t">>, <<"t","r","a","n","s","a","c","t","i","o","n"," ","a","m","o","u","n","t">>, <<"a","m","t">> >>
debitHeaders == << <<"d","e","b","i","t">> >>
creditHeaders == << <<"c","r","e","d","i","t">> >>

\* r[idx] ?? ''
cellOr(r, idx) == IF idx + 1 \in DOMAIN r THEN r[idx + 1] ELSE <<>>

\* targetMonth.split('-')[0]
yearStrOf(targetMonth) ==
  LET dashes == {i \in DOMAIN targetMonth : targetMonth[i] = "-"}
  IN IF dashes = {} THEN targetMonth ELSE SubSeq(targetMonth, 1, Min(dashes) - 1)

\* the amount of one data row
csvAmount(r, amountIdx, debitIdx, creditIdx) ==
  LET debit == IF debitIdx >= 0 THEN numberOfString(stripMoney(cellOr(r, debitIdx))) ELSE Num(0)
      credit == IF creditIdx >= 0 THEN numberOfString(stripMoney(cellOr(r, creditIdx))) ELSE Num(0)
  IN IF amountIdx >= 0 /\ amountIdx + 1 \in DOMAIN r /\ ~blank(r[amountIdx + 1])
       THEN finiteOrZero(numberOfString(stripMoney(r[amountIdx + 1])))
     ELSE IF debitIdx >= 0 \/ creditIdx >= 0
       THEN finiteOrZero(debit) - finiteOrZero(credit)
     ELSE 0

\* skipRow without the month test
skipRowUnparsed(iso, targetMonth) == iso = NoStr

\* if (!iso || !iso.startsWith(targetMonth)) continue
skipRow(iso, targetMonth) == iso = NoStr \/ ~startsWith(iso, targetMonth)

\* the for loop over the data rows, from row k on
RECURSIVE csvRowsFrom(_, _, _, _, _, _, _, _, _)
csvRowsFrom(dataRows, k, targetMonth, fallbackYear, dateIdx, merchantIdx, amountIdx, debitIdx, creditIdx) ==
  IF k > Len(dataRows) THEN <<>>
  ELSE LET r == dataRows[k]
           dateRaw == IF dateIdx >= 0 THEN cellOr(r, dateIdx) ELSE <<>>
           merchantRaw == IF merchantIdx >= 0 THEN cellOr(r, merchantIdx) ELSE <<>>
           iso == toIsoDate(dateRaw, fallbackYear)
           rest == csvRowsFrom(dataRows, k + 1, targetMonth, fallbackYear,
                               dateIdx, merchantIdx, amountIdx, debitIdx, creditIdx)
       IN IF skipRow(iso, targetMonth) THEN rest
          ELSE IF blank(merchantRaw) THEN rest
          ELSE <<[date |-> iso, merchant |-> merchantRaw,
                  amount |-> Num(csvAmount(r, amountIdx, debitIdx, creditIdx)),
                  category |-> Null]>> \o rest

parseTransactionsFromCsv(csvText, targetMonth) ==
  LET rows == parseCsv(csvText)
      headers == [k \in DOMAIN rows[1] |-> trim(rows[1][k])]
  IN IF Len(rows) = 0 THEN <<>>
     ELSE csvRowsFrom(Tail(rows), 1, targetMonth, parseInt10(yearStrOf(targetMonth)),
                      pickHeaderIndex(headers, dateHeaders),
                      pickHeaderIndex(headers, merchantHeaders),
                      pickHeaderIndex(headers, amountHeaders),
                      pickHeaderIndex(headers, debitHeaders),
                      pickHeaderIndex(headers, creditHeaders))

(***************************************************************************)
(* statementLocal: the transaction normalizer                              *)
(***************************************************************************)
\* the magnitude of the amount in place of the signed amount
magnitudeOrZero(a) == IF a.t = "number" THEN Abs(a.v) ELSE 0

\* Number(t.amount) || 0
numberOrZero(a) == IF a.t = "number" THEN a.v ELSE 0

\* `${Date.now()}-${index}`
makeId(clock, index) == numToStr(clock) \o <<"-">> \o numToStr(index)

\* the record that the map callback of finalizeTransactions builds from raw
\* record t at 0-based position index
finalizeOne(t, index, um, clock) ==
  LET merchant == normalizeMerchant(t.merchant)
      amount == numberOrZero(t.amount)
  IN [id |-> makeId(clock, index),
      date |-> t.date,
      merchant |-> merchant,
      amount |-> Abs(amount),
      category |-> categorizeTransaction(merchant, amount, um),
      originalCategory |-> t.category]

\* !!t.date && /^\d{4}-\d{2}-\d{2}$/.test(t.date)
hasIsoDate(t) == t.date # NoStr /\ t.date # <<>> /\ isoDatePattern(t.date)

\* clock is the reading of Date.now() during the call
finalizeTransactions(raw, um, clock) ==
  SelectSeq([k \in DOMAIN raw |-> finalizeOne(raw[k], k - 1, um, clock)], hasIsoDate)

(***************************************************************************)
(* geminiService: what processStatement makes of the extractor's answer    *)
(***************************************************************************)
\* Math.abs(x) of a tagged number
absNumber(x) == IF x.t = "number" THEN Num(Abs(x.v)) ELSE NaNv

\* rawData.map(...) of processStatement; the id it assigns is dropped by the
\* caller and is left out
processStatement(rawData) ==
  [k \in DOMAIN rawData |->
     [date |-> rawData[k].date,
      merchant |-> rawData[k].merchant,
      amount |-> absNumber(rawData[k].amount),
      category |-> IF rawData[k].category \in CategorySet THEN rawData[k].category ELSE "Unknown",
      originalCategory |-> rawData[k].category]]

(***************************************************************************)
(* App: state                                                              *)
(***************************************************************************)
\* {[k]: v}: the other entries are dropped
putOnly(um, k, v) == <<[key |-> k, category |-> v]>>

\* {...prev, [k]: v}: an existing key keeps its place, a new one goes last
put(um, k, v) ==
  IF \E i \in DOMAIN um : um[i].key = k
    THEN [i \in DOMAIN um |->
            IF um[i].key = k THEN [key |-> k, category |-> v] ELSE um[i]]
    ELSE Append(um, [key |-> k, category |-> v])

\* String.prototype.endsWith
endsWith(s, p) == Len(p) <= Len(s) /\ SubSeq(s, Len(s) - Len(p) + 1, Len(s)) = p

isCsv(file) ==
  \/ file.type = "text/csv"
  \/ endsWith(toLowerCase(file.name), <<".","c","s","v">>)
  \/ file.type = "application/vnd.ms-excel"

\* the key of the extraction cache in localStorage
cacheKey(month, file) == [month |-> month, type |-> file.type, hash |-> file.hash]

\* the filter without the category test
keepInMonth(t, month) == startsWith(t.date, month)

\* finalizeTransactions(...).filter(t => t.category !== 'Payment/Credit' &&
\*                                      t.date.startsWith(selectedMonth))
keepForMonth(t, month) == t.category # "Payment/Credit" /\ startsWith(t.date, month)

finalizedForMonth(raw, um, month, clock) ==
  LET keep(t) == keepForMonth(t, month)
  IN SelectSeq(finalizeTransactions(raw, um, clock), keep)

\* d.date || d.transaction_date || d.posted_date || ''
firstTruthy(vals) ==
  LET ok == {i \in DOMAIN vals : vals[i] # NoStr /\ vals[i] # <<>>}
  IN IF ok = {} THEN <<>> ELSE vals[Min(ok)]

\* Number(d.amount ?? 0) of a JSON value: a number, a string or missing
jsonNumber(v) ==
  IF v.t = "undefined" THEN Num(0)
  ELSE IF v.t = "string" THEN numberOfString(v.s)
  ELSE v

\* the raw records handleJsonImport builds from the parsed items
jsonRaw(items) ==
  LET mapped == [k \in DOMAIN items |->
                   [date |-> trim(firstTruthy(<<items[k].date, items[k].transaction_date,
                                                items[k].posted_date>>)),
                    merchant |-> trim(firstTruthy(<<items[k].merchant, items[k].description,
                                                    items[k].name>>)),
                    amount |-> jsonNumber(items[k].amount),
                    category |-> IF Truthy(items[k].category) THEN items[k].category ELSE Null]]
      keep(t) == t.date # <<>> /\ t.merchant # <<>>
  IN SelectSeq(mapped, keep)

\* new Date(year, month - 1 + offset) formatted as YYYY-MM
shiftMonth(month, offset) ==
  LET parts == splitAt(month, {i \in DOMAIN month : month[i] = "-"}, 1)
      year == parseInt10(parts[1])
      m0 == parseInt10(parts[2]) - 1 + offset
      y2 == IF m0 < 0 THEN year - 1 ELSE IF m0 > 11 THEN year + 1 ELSE year
      m2 == IF m0 < 0 THEN m0 + 12 ELSE IF m0 > 11 THEN m0 - 12 ELSE m0
  IN numToStr(y2) \o <<"-">> \o padStart2(numToStr(m2 + 1))

(***************************************************************************)
(* App: inputs                                                             *)
(***************************************************************************)
\* imports that may be started
MaxImports == 2
\* recategorizations, deletions and clears that may be done
MaxEdits == 1
\* largest reading of the clock
MaxClock == 1

Months == { <<"2","0","2","6","-","0","1">>, <<"2","0","2","6","-","0","2">> }

\* the files the user can pick
csvFile ==
  [name |-> <<"j","a","n",".","C","S","V">>, type |-> "", hash |-> "c1",
   text |-> <<"D","a","t","e",",","D","e","s","c","r","i","p","t","i","o","n",",","A","m","o","u","n","t","\n","0","1","/","1","5",",","S","t","a","r","b","u","c","k","s",",","4",".","5","0","\n","0","2","/","0","3",",","\"","S","h","e","l","l"," "," ","G","a","s","\"",",","4","0","\n">>]
pdfFile ==
  [name |-> <<"j","a","n",".","p","d","f">>, type |-> "application/pdf", hash |-> "p1", text |-> <<>>]
Files == {csvFile, pdfFile}

\* answers of the external extractor: the parsed JSON array
AiItem(date, merchant, amount, category) ==
  [date |-> date, merchant |-> merchant, amount |-> amount, category |-> category]
AiAnswers ==
  { <<>>,
    << AiItem(<<"2","0","2","6","-","0","1","-","0","5">>, <<"S","h","e","l","l"," ","G","a","s">>, Num(4000), "Transport & Fuel") >>,
    << AiItem(<<"2","0","2","6","-","0","1","-","0","9">>, <<" "," ">>, Num(500), "Shopping"),
       AiItem(<<"2","0","2","6","-","0","2","-","0","3">>, <<"S","h","e","l","l"," ","G","a","s">>, Num(-3000), "Payment/Credit") >> }

\* texts the user can paste, parsed: arrays of objects
JsonItem(date, tdate, merchant, description, amount) ==
  [kind |-> "object", date |-> date, transaction_date |-> tdate, posted_date |-> NoStr,
   merchant |-> merchant, description |-> description, name |-> NoStr,
   amount |-> amount, category |-> Null]
\* the array element null
JsonNull == [kind |-> "null"]
JsonTexts ==
  << << JsonItem(<<"2","0","2","6","-","0","1","-","0","5">>, NoStr, <<"S","h","e","l","l"," ","G","a","s">>, NoStr, Num(4000)) >>,
     << JsonItem(<<"2","0","2","6","-","0","1","-","0","7">>, NoStr, <<"A","m","a","z","o","n"," ","R","e","f","u","n","d">>, NoStr, Num(-2500)),
        JsonItem(NoStr, <<"2","0","2","6","-","0","2","-","0","3">>, NoStr, <<" ","V","e","n","m","o"," ">>, [t |-> "string", s |-> <<"1","2",".","5","0">>]) >>,
     << JsonItem(<<"1","/","5">>, NoStr, <<"V","e","n","m","o">>, NoStr, Num(500)) >>,
     << JsonNull, JsonItem(<<"2","0","2","6","-","0","1","-","0","5">>, NoStr, <<"S","h","e","l","l"," ","G","a","s">>, NoStr, Num(4000)) >>,
     << >> >>

\* the merchant mapping found in localStorage when the component mounts:
\* none, or a table with a label that is not in DEFAULT_CATEGORIES
SavedMappings == { <<>>, <<[key |-> <<"S","h","e","l","l"," ","G","a","s">>, category |-> "Custom"]>> }

\* the categories the user picks in the selector (all of DEFAULT_CATEGORIES
\* are offered; the model tries these)
RecatChoices == {"Shopping", "Payment/Credit"}

\* an id that no transaction has
absentId == <<"n","o","n","e">>

(***************************************************************************)
(* App: handlers                                                           *)
(***************************************************************************)
idle == [pc |-> "idle", file |-> pdfFile, selectedMonth |-> <<>>, userMappings |-> <<>>]
noImport == [kind |-> "none", month |-> <<>>, seq |-> 0, all |-> <<>>, nAdded |-> 0,
             nRaw |-> 0, msg |-> Null]

fnIdle == arg = Null /\ res = Null /\ pc = "off"

\* the save effects and the PaycheckCalculator component are modelled further down
sideIdle == rendered = Null /\ calc = Null

Init ==
  /\ transactions = <<>>
  /\ userMappings \in SavedMappings
  /\ selectedMonth \in Months
  /\ isProcessing = FALSE
  /\ error = Null
  /\ localStorage = {}
  /\ upload = idle
  /\ now = 0
  /\ origin = <<>>
  /\ taught = <<>>
  /\ lastImport = noImport
  /\ nImports = 0
  /\ nEdits = 0
  /\ fnIdle
  /\ sideIdle

\* the origins of the records of raw that finalizedForMonth keeps
originsKept(raw, um, month, clock, src) ==
  LET kept(k) == LET t == finalizeOne(raw[k], k - 1, um, clock)
                 IN hasIsoDate(t) /\ keepForMonth(t, month)
  IN SelectSeq([k \in DOMAIN raw |-> [src |-> src, idx |-> k]],
               LAMBDA o : kept(o.idx))

\* setTransactions((prev) => [...finalized, ...prev])
addTransactions(finalized, origins, kind, month, all, nRaw) ==
  /\ transactions' = finalized \o transactions
  /\ origin' = origins \o origin
  /\ lastImport' = [kind |-> kind, month |-> month, seq |-> lastImport.seq + 1, all |-> all,
                    nAdded |-> Len(finalized), nRaw |-> nRaw, msg |-> Null]

\* setError(msg) in place of setTransactions
addNothing(kind, month, all, nRaw, msg) ==
  /\ error' = msg
  /\ UNCHANGED <<transactions, origin>>
  /\ lastImport' = [kind |-> kind, month |-> month, seq |-> lastImport.seq + 1, all |-> all,
                    nAdded |-> 0, nRaw |-> nRaw, msg |-> msg]

\* the month picker: setSelectedMonth(e.target.value)
SetSelectedMonth(m) ==
  /\ selectedMonth' = m
  /\ UNCHANGED <<transactions, userMappings, isProcessing, error, localStorage, upload, now,
                 origin, taught, lastImport, nImports, nEdits, fnVars, sideVars>>

changeMonth(offset) ==
  /\ shiftMonth(selectedMonth, offset) \in Months
  /\ selectedMonth' = shiftMonth(selectedMonth, offset)
  /\ UNCHANGED <<transactions, userMappings, isProcessing, error, localStorage, upload, now,
                 origin, taught, lastImport, nImports, nEdits, fnVars, sideVars>>

\* time passes.  A call of finalizeTransactions reads Date.now() once for
\* each record; the readings of one call are taken to be the same, the index
\* tells the records of one call apart.
Tick ==
  /\ now < MaxClock
  /\ now' = now + 1
  /\ UNCHANGED <<transactions, userMappings, selectedMonth, isProcessing, error, localStorage,
                 upload, origin, taught, lastImport, nImports, nEdits, fnVars, sideVars>>

\* handleFileUpload up to its first await; the closure keeps the month and
\* the mapping of the render that the event came from
handleFileUpload(file) ==
  /\ ~isProcessing
  /\ nImports < MaxImports
  /\ nImports' = nImports + 1
  /\ isProcessing' = TRUE
  /\ error' = Null
  /\ upload' = [pc |-> IF isCsv(file) THEN "text" ELSE "hash", file |-> file,
                selectedMonth |-> selectedMonth, userMappings |-> userMappings]
  /\ UNCHANGED <<transactions, userMappings, selectedMonth, localStorage, now, origin, taught,
                 lastImport, nEdits, fnVars, sideVars>>

\* the CSV branch after await file.text()
csvTextRead ==
  /\ upload.pc = "text"
  /\ LET raw == parseTransactionsFromCsv(upload.file.text, upload.selectedMonth)
         finalized == finalizedForMonth(raw, upload.userMappings, upload.selectedMonth, now)
         all == finalizeTransactions(raw, upload.userMappings, now)
     IN IF Len(finalized) = 0
          THEN addNothing("csv", upload.selectedMonth, all, Len(raw),
                          "No valid transactions in that CSV")
          ELSE error' = error
               /\ addTransactions(finalized,
                    originsKept(raw, upload.userMappings, upload.selectedMonth, now, upload.file.hash),
                    "csv", upload.selectedMonth, all, Len(raw))
  /\ isProcessing' = FALSE
  /\ upload' = idle
  /\ UNCHANGED <<userMappings, selectedMonth, localStorage, now, taught, nImports, nEdits, fnVars, sideVars>>

\* the tail of the AI branch, from finalizeTransactions(rawFromAi, ...) on
finishAi(rawFromAi) ==
  LET finalized == finalizedForMonth(rawFromAi, upload.userMappings, upload.selectedMonth, now)
      all == finalizeTransactions(rawFromAi, upload.userMappings, now)
  IN /\ IF Len(rawFromAi) = 0
          THEN addNothing("ai", upload.selectedMonth, all, 0,
                          "No transactions found in the statement")
          ELSE IF Len(finalized) = 0
            THEN addNothing("ai", upload.selectedMonth, all, Len(rawFromAi),
                            "Detected items were outside this month or payments")
            ELSE error' = error
                 /\ addTransactions(finalized,
                      originsKept(rawFromAi, upload.userMappings, upload.selectedMonth, now,
                                  upload.file.hash),
                      "ai", upload.selectedMonth, all, Len(rawFromAi))
     /\ isProcessing' = FALSE
     /\ upload' = idle

\* the cache is used only for an extraction that found something
isCachedNonEmpty(entries) == \E e \in entries : Len(e.value) > 0

\* if (cached): the item is in localStorage ("[]" is a truthy string)
isCached(entries) == entries # {}

\* the AI branch after await hashFile(file): a cached extraction is taken
\* from localStorage, otherwise the extractor is called
hashDone ==
  /\ upload.pc = "hash"
  /\ LET key == cacheKey(upload.selectedMonth, upload.file)
         cached == {e \in localStorage : e.key = key}
     IN IF isCached(cached)
          THEN finishAi((CHOOSE e \in cached : TRUE).value)
          ELSE /\ upload' = [upload EXCEPT !.pc = "ai"]
               /\ UNCHANGED <<transactions, origin, lastImport, isProcessing, error>>
  /\ UNCHANGED <<userMappings, selectedMonth, localStorage, now, taught, nImports, nEdits, fnVars, sideVars>>

\* processStatement returns; rawData is the array the extractor answered (an
\* answer that is not JSON gives the empty array)
aiReturns(rawData) ==
  /\ upload.pc = "ai"
  /\ LET aiTransactions == processStatement(rawData)
         rawFromAi == [k \in DOMAIN aiTransactions |->
                         [date |-> aiTransactions[k].date,
                          merchant |-> aiTransactions[k].merchant,
                          amount |-> aiTransactions[k].amount,
                          category |-> aiTransactions[k].category]]
     IN /\ localStorage' = localStorage \cup
             {[key |-> cacheKey(upload.selectedMonth, upload.file), value |-> rawFromAi]}
        /\ finishAi(rawFromAi)
  /\ UNCHANGED <<userMappings, selectedMonth, now, taught, nImports, nEdits, fnVars, sideVars>>

\* an await of handleFileUpload rejects (the file cannot be read, the
\* extractor call fails): the catch block
uploadFails ==
  /\ upload.pc \in {"text", "hash", "ai"}
  /\ error' = "Failed to process the statement"
  /\ isProcessing' = FALSE
  /\ upload' = idle
  /\ UNCHANGED <<transactions, userMappings, selectedMonth, localStorage, now, origin, taught,
                 lastImport, nImports, nEdits, fnVars, sideVars>>

\* d.date of the map callback raises a TypeError when d is null
jsonThrows(items) == \E k \in DOMAIN items : items[k].kind = "null"

\* handleJsonImport with the k-th text pasted
handleJsonImport(k) ==
  /\ nImports < MaxImports
  /\ nImports' = nImports + 1
  /\ LET raw == jsonRaw(JsonTexts[k])
         finalized == finalizedForMonth(raw, userMappings, selectedMonth, now)
         all == finalizeTransactions(raw, userMappings, now)
     IN IF jsonThrows(JsonTexts[k])
          THEN error' = "Invalid JSON format"
               /\ UNCHANGED <<transactions, origin, lastImport>>
        ELSE IF Len(finalized) = 0
          THEN addNothing("json", selectedMonth, all, Len(raw),
                          "No valid transactions in that JSON")
          ELSE error' = Null
               /\ addTransactions(finalized,
                    originsKept(raw, userMappings, selectedMonth, now, numToStr(k)),
                    "json", selectedMonth, all, Len(raw))
  /\ UNCHANGED <<userMappings, selectedMonth, isProcessing, localStorage, upload, now, taught,
                 nEdits, fnVars, sideVars>>

\* handleJsonImport with a text that JSON.parse rejects
handleJsonImportInvalid ==
  /\ nImports < MaxImports
  /\ nImports' = nImports + 1
  /\ error' = "Invalid JSON format"
  /\ UNCHANGED <<transactions, userMappings, selectedMonth, isProcessing, localStorage, upload,
                 now, origin, taught, lastImport, nEdits, fnVars, sideVars>>

\* the rows of the table: the transactions of the selected month
monthTransactions == SelectSeq(transactions, LAMBDA t : startsWith(t.date, selectedMonth))

updateCategory(id, newCategory) ==
  /\ nEdits < MaxEdits
  /\ nEdits' = nEdits + 1
  /\ LET found == {i \in DOMAIN transactions : transactions[i].id = id}
     IN IF found = {}
          THEN UNCHANGED <<transactions, userMappings, taught>>
          ELSE /\ transactions' = [i \in DOMAIN transactions |->
                     IF transactions[i].id = id
                       THEN [transactions[i] EXCEPT !.category = newCategory]
                       ELSE transactions[i]]
               /\ userMappings' = put(userMappings, transactions[Min(found)].merchant, newCategory)
               /\ taught' = put(taught, transactions[Min(found)].merchant, newCategory)
  /\ UNCHANGED <<selectedMonth, isProcessing, error, localStorage, upload, now, origin,
                 lastImport, nImports, fnVars, sideVars>>

\* setTransactions(prev => prev.filter(t => t.id !== id))
removeTransaction(id) ==
  /\ nEdits < MaxEdits
  /\ nEdits' = nEdits + 1
  /\ LET both == [i \in DOMAIN transactions |-> [t |-> transactions[i], o |-> origin[i]]]
         kept == SelectSeq(both, LAMBDA b : b.t.id # id)
     IN /\ transactions' = SelectSeq(transactions, LAMBDA t : t.id # id)
        /\ origin' = [i \in DOMAIN kept |-> kept[i].o]
  /\ UNCHANGED <<userMappings, selectedMonth, isProcessing, error, localStorage, upload, now,
                 taught, lastImport, nImports, fnVars, sideVars>>

\* clearMonth, confirmed
clearMonth ==
  /\ nEdits < MaxEdits
  /\ nEdits' = nEdits + 1
  /\ LET both == [i \in DOMAIN transactions |-> [t |-> transactions[i], o |-> origin[i]]]
         kept == SelectSeq(both, LAMBDA b : ~startsWith(b.t.date, selectedMonth))
     IN /\ transactions' = SelectSeq(transactions, LAMBDA t : ~startsWith(t.date, selectedMonth))
        /\ origin' = [i \in DOMAIN kept |-> kept[i].o]
  /\ UNCHANGED <<userMappings, selectedMonth, isProcessing, error, localStorage, upload, now,
                 taught, lastImport, nImports, fnVars, sideVars>>

Next ==
  \/ \E m \in Months : SetSelectedMonth(m)
  \/ \E offset \in {-1, 1} : changeMonth(offset)
  \/ Tick
  \/ \E file \in Files : handleFileUpload(file)
  \/ csvTextRead
  \/ hashDone
  \/ \E rawData \in AiAnswers : aiReturns(rawData)
  \/ uploadFails
  \/ \E k \in DOMAIN JsonTexts : handleJsonImport(k)
  \/ handleJsonImportInvalid
  \/ \E id \in {t.id : t \in Range(monthTransactions)} \cup {absentId},
        newCategory \in RecatChoices : updateCategory(id, newCategory)
  \/ \E id \in {t.id : t \in Range(monthTransactions)} : removeTransaction(id)
  \/ clearMonth

Spec == Init /\ [][Next]_vars

(***************************************************************************)
(* Calls of the pure functions on bounded inputs                           *)
(***************************************************************************)
\* largest number of entries of a mapping table
MaxMapEntries == 2

\* the App component is not used
appAside ==
  /\ transactions = <<>> /\ userMappings = <<>> /\ selectedMonth = <<>>
  /\ isProcessing = FALSE /\ error = Null /\ localStorage = {} /\ upload = idle
  /\ now = 0 /\ origin = <<>> /\ taught = <<>> /\ lastImport = noImport
  /\ nImports = 0 /\ nEdits = 0 /\ rendered = Null

appIdle == appAside /\ calc = Null

CatMerchants ==
  { <<"S","h","e","l","l"," ","G","a","s">>, <<"s","h","e","l","l"," ","g","a","s">>, <<" "," ","S","h","e","l","l"," ","\t"," ","G","a","s"," ">>, <<"V","e","n","m","o">>,
    <<"A","m","a","z","o","n"," ","R","e","f","u","n","d">>, <<"a","m","a","z","o","n"," "," ","r","e","f","u","n","d">>, <<"V","e","n","m","o"," ","R","e","f","u","n","d","s">>, <<"P","r","e","p","a","y","m","e","n","t"," ","P","l","a","n">>,
    <<"C","r","e","d","i","t","o","r">>, <<"C","r","e","d","i","t","-","O","n","e"," ","C","a","r","d">>, <<>>, <<" "," ">>,
    <<"A","m","a","z","o","n"," ","P","r","i","m","e">>, <<"U","b","e","r"," ","E","a","t","s">> }

CatAmounts == {-2500, 0, 4000}

MapKeys == { <<"S","h","e","l","l"," ","G","a","s">>, <<"s","h","e","l","l"," ","g","a","s">>, <<"A","m","a","z","o","n"," ","R","e","f","u","n","d">>, <<>> }

\* category values a persisted table can hold: a label of the closed set, a
\* label outside it, the empty string
MapValues == {"Shopping", "Travel", "Custom", ""}

Entries == [key : MapKeys, category : MapValues]

RECURSIVE TablesOfLen(_)
TablesOfLen(n) ==
  IF n = 0 THEN {<<>>}
  ELSE {Append(t, e) : t \in TablesOfLen(n - 1), e \in Entries}

UniqueKeys(t) == \A i, j \in DOMAIN t : t[i].key = t[j].key => i = j

MappingTables ==
  {t \in UNION {TablesOfLen(n) : n \in 0..MaxMapEntries} : UniqueKeys(t)}

CatInputs ==
  [fn : {"categorize"}, merchant : CatMerchants, amount : CatAmounts,
   userMappings : MappingTables]

InitCat == appIdle /\ arg \in CatInputs /\ res = Null /\ pc = "ready"

CallCategorize ==
  /\ pc = "ready"
  /\ res' = categorizeTransaction(arg.merchant, arg.amount, arg.userMappings)
  /\ pc' = "done"
  /\ UNCHANGED <<arg, appVars>>

NextCat == CallCategorize

SpecCat == InitCat /\ [][NextCat]_vars

\* largest number of raw records handed to finalizeTransactions
MaxRaw == 2

RawRec(date, merchant, amount, category) ==
  [date |-> date, merchant |-> merchant, amount |-> amount, category |-> category]

FinPool ==
  { RawRec(<<"2","0","2","6","-","0","1","-","0","5">>, <<"S","h","e","l","l"," ","G","a","s">>, Num(4000), "Shopping"),
    RawRec(<<"2","0","2","6","-","0","2","-","0","3">>, <<" "," ","A","m","a","z","o","n"," ","\t"," ","P","r","i","m","e"," ">>, Num(-2500), Null),
    RawRec(<<"2","0","2","6","-","0","1","-","0","9">>, <<"V","e","n","m","o">>, NaNv, Null),
    RawRec(<<"2","0","2","6","-","0","1","-","1","0">>, <<"S","t","a","r","b","u","c","k","s">>, Undef, Null),
    RawRec(<<"1","/","5","/","2","0","2","6">>, <<"V","e","n","m","o">>, Num(500), Null),
    RawRec(<<"2","0","2","6","-","1","-","0","5">>, <<"V","e","n","m","o">>, Num(500), Null),
    RawRec(<<"2","0","2","6","-","0","1","-","0","5"," ">>, <<"S","t","a","r","b","u","c","k","s">>, Num(450), Null),
    RawRec(<<"x","2","0","2","6","-","0","1","-","0","5">>, <<"S","t","a","r","b","u","c","k","s">>, Num(450), Null),
    RawRec(<<"2","0","2","6","/","0","1","/","0","5">>, <<"S","t","a","r","b","u","c","k","s">>, Num(450), Null),
    RawRec(<<>>, <<"S","h","e","l","l"," ","G","a","s">>, Num(100), Null),
    RawRec(NoStr, <<"V","e","n","m","o">>, Num(-500), Null) }

RECURSIVE SeqsOfLen(_, _)
SeqsOfLen(S, n) ==
  IF n = 0 THEN {<<>>}
  ELSE {Append(s, e) : s \in SeqsOfLen(S, n - 1), e \in S}

SeqsUpTo(S, n) == UNION {SeqsOfLen(S, k) : k \in 0..n}

FinInputs ==
  [fn : {"finalize"}, raw : SeqsUpTo(FinPool, MaxRaw),
   userMappings : {<<>>, <<[key |-> <<"V","e","n","m","o">>, category |-> "Travel"]>>},
   clock : {0, 12}]

InitFin == appIdle /\ arg \in FinInputs /\ res = Null /\ pc = "ready"

CallFinalize ==
  /\ pc = "ready"
  /\ res' = finalizeTransactions(arg.raw, arg.userMappings, arg.clock)
  /\ pc' = "done"
  /\ UNCHANGED <<arg, appVars>>

NextFin == CallFinalize

SpecFin == InitFin /\ [][NextFin]_vars

\* largest number of data rows of a CSV text
MaxCsvRows == 2

\* a data row before it is written as CSV: its date, merchant, amount, debit
\* and credit cells, each money cell with the number it stands for in
\* hundredths (0 for a blank cell and for a cell that is no number)
Money(text, num) == [text |-> text, num |-> num]
CsvRowOf(date, merchant, amount, debit, credit) ==
  [date |-> date, merchant |-> merchant, amount |-> amount.text, amountNum |-> amount.num,
   debit |-> debit, credit |-> credit]
CsvRow(date, merchant, amount) ==
  CsvRowOf(date, merchant, amount, Money(<<>>, 0), Money(<<>>, 0))

CsvPool ==
  { CsvRow(<<"0","1","/","1","5">>, <<"S","t","a","r","b","u","c","k","s">>, Money(<<"4",".","5","0">>, 450)),
    CsvRow(<<"2","0","2","6","-","0","2","-","0","3">>, <<"S","h","e","l","l",","," ","G","a","s">>, Money(<<"$","1",",","0","0","0",".","0","0">>, 100000)),
    CsvRow(<<"2","/","3","/","2","6">>, <<" ","S","h","e","l","l"," "," ","G","a","s">>, Money(<<"4","0">>, 4000)),
    CsvRow(<<"J","a","n"," ","2","0">>, <<"N","e","t","f","l","i","x">>, Money(<<"9",".","9","9">>, 999)),
    CsvRow(<<"s","o","o","n">>, <<"V","e","n","m","o">>, Money(<<"5">>, 500)),
    CsvRow(<<"0","1","/","2","1">>, <<" "," ">>, Money(<<"3">>, 300)),
    CsvRowOf(<<"0","1","/","1","6">>, <<"C","a","r","d"," ","S","e","r","v","i","c","e","s">>, Money(<<>>, 0), Money(<<>>, 0), Money(<<"2","5",".","0","0">>, 2500)),
    CsvRowOf(<<"0","1","/","1","7">>, <<"C","o","s","t","c","o">>, Money(<<" ">>, 0), Money(<<"$","1",",","2","0","0",".","5","0">>, 120050), Money(<<>>, 0)),
    CsvRowOf(<<"0","1","/","1","8">>, <<"I","k","e","a">>, Money(<<"a","b","c">>, 0), Money(<<"1","0">>, 1000), Money(<<"3">>, 300)),
    CsvRowOf(<<"0","1","/","1","9">>, <<"E","t","s","y">>, Money(<<"-","7",".","5">>, -750), Money(<<"n","/","a">>, 0), Money(<<"4">>, 400)) }

\* the order of the columns and their header names
CsvLayouts ==
  { << [col |-> "date", name |-> <<"D","a","t","e">>], [col |-> "merchant", name |-> <<"D","e","s","c","r","i","p","t","i","o","n">>],
       [col |-> "amount", name |-> <<"A","m","o","u","n","t">>] >>,
    << [col |-> "amount", name |-> <<"A","M","T">>], [col |-> "merchant", name |-> <<" ","m","e","m","o">>],
       [col |-> "other", name |-> <<"B","a","l","a","n","c","e">>], [col |-> "date", name |-> <<"P","o","s","t","e","d"," ","D","a","t","e">>] >>,
    << [col |-> "date", name |-> <<"D","a","t","e">>], [col |-> "merchant", name |-> <<"N","a","m","e">>],
       [col |-> "debit", name |-> <<"D","e","b","i","t">>], [col |-> "credit", name |-> <<"C","r","e","d","i","t">>] >>,
    << [col |-> "date", name |-> <<"T","r","a","n","s"," ","D","a","t","e">>], [col |-> "merchant", name |-> <<"M","e","r","c","h","a","n","t">>],
       [col |-> "debit", name |-> <<"D","E","B","I","T">>] >>,
    << [col |-> "credit", name |-> <<"c","r","e","d","i","t">>], [col |-> "amount", name |-> <<"T","r","a","n","s","a","c","t","i","o","n"," ","A","m","o","u","n","t">>],
       [col |-> "debit", name |-> <<"d","e","b","i","t">>], [col |-> "merchant", name |-> <<"d","e","s","c","r","i","p","t","i","o","n">>],
       [col |-> "date", name |-> <<"d","a","t","e">>] >> }

\* the target months, each with its year
CsvMonths ==
  { [key |-> <<"2","0","2","6","-","0","1">>, year |-> 2026], [key |-> <<"2","0","2","6","-","0","2">>, year |-> 2026],
    [key |-> <<"2","0","2","5","-","0","1">>, year |-> 2025] }

CsvEols == { <<"\n">>, <<"\r","\n">> }

\* a cell as a CSV writer emits it: quoted when it holds a delimiter or a quote,
\* with every quote doubled
csvCell(c) ==
  LET doubled == [i \in DOMAIN c |-> IF c[i] = "\"" THEN <<"\"", "\"">> ELSE <<c[i]>>]
      RECURSIVE flat(_)
      flat(k) == IF k > Len(c) THEN <<>> ELSE doubled[k] \o flat(k + 1)
  IN IF \E i \in DOMAIN c : c[i] \in {",", "\"", "\t", "\n", "\r"}
       THEN <<"\"">> \o flat(1) \o <<"\"">>
       ELSE c

RECURSIVE joinCells(_, _)
joinCells(cells, k) ==
  IF k > Len(cells) THEN <<>>
  ELSE (IF k > 1 THEN <<",">> ELSE <<>>) \o csvCell(cells[k]) \o joinCells(cells, k + 1)

csvLine(layout, row) ==
  joinCells([k \in DOMAIN layout |->
               IF layout[k].col = "date" THEN row.date
               ELSE IF layout[k].col = "merchant" THEN row.merchant
               ELSE IF layout[k].col = "amount" THEN row.amount
               ELSE IF layout[k].col = "debit" THEN row.debit.text
               ELSE IF layout[k].col = "credit" THEN row.credit.text
               ELSE <<"1","7",".","0","0">>], 1)

RECURSIVE joinLines(_, _, _, _)
joinLines(layout, rows, eol, k) ==
  IF k > Len(rows) THEN <<>>
  ELSE csvLine(layout, rows[k]) \o eol \o joinLines(layout, rows, eol, k + 1)

csvTextOf(layout, rows, eol) ==
  joinCells([k \in DOMAIN layout |-> layout[k].name], 1) \o eol \o joinLines(layout, rows, eol, 1)

CsvInputs ==
  [fn : {"parseTransactionsFromCsv"}, layout : CsvLayouts, rows : SeqsUpTo(CsvPool, MaxCsvRows),
   eol : CsvEols, month : CsvMonths]

InitCsv == appIdle /\ arg \in CsvInputs /\ res = Null /\ pc = "ready"

CallParseTransactionsFromCsv ==
  /\ pc = "ready"
  /\ res' = parseTransactionsFromCsv(csvTextOf(arg.layout, arg.rows, arg.eol), arg.month.key)
  /\ pc' = "done"
  /\ UNCHANGED <<arg, appVars>>

NextCsv == CallParseTransactionsFromCsv

SpecCsv == InitCsv /\ [][NextCsv]_vars

(***************************************************************************)
(* Calls of toIsoDate on dates written from their parts                    *)
(***************************************************************************)
\* month and day numbers as they are written, and as the result pads them
DateMonths == { [text |-> <<"1">>, padded |-> <<"0","1">>], [text |-> <<"0","1">>, padded |-> <<"0","1">>],
                [text |-> <<"1","2">>, padded |-> <<"1","2">>] }
DateDays == { [text |-> <<"5">>, padded |-> <<"0","5">>], [text |-> <<"0","5">>, padded |-> <<"0","5">>],
              [text |-> <<"3","1">>, padded |-> <<"3","1">>] }

\* the year as written (nothing, two, three or four digits) and the year it
\* stands for: yearSrc says whether that is the written year, the fallback
\* year, or not laid down
DateYears ==
  { [text |-> <<>>, yearSrc |-> "fallback", yearText |-> <<>>],
    [text |-> <<"2","6">>, yearSrc |-> "explicit", yearText |-> <<"2","0","2","6">>],
    [text |-> <<"0","5">>, yearSrc |-> "explicit", yearText |-> <<"2","0","0","5">>],
    [text |-> <<"2","0","2","6">>, yearSrc |-> "explicit", yearText |-> <<"2","0","2","6">>],
    [text |-> <<"1","9","9","9">>, yearSrc |-> "explicit", yearText |-> <<"1","9","9","9">>],
    [text |-> <<"1","2","3">>, yearSrc |-> "unstated", yearText |-> <<>>] }

DateSeps == { <<"/">>, <<"-">> }

DateNames == { [text |-> <<"J","a","n">>, padded |-> <<"0","1">>], [text |-> <<"j","a","n","u","a","r","y">>, padded |-> <<"0","1">>],
               [text |-> <<"S","E","P","T">>, padded |-> <<"0","9">>], [text |-> <<"D","e","c">>, padded |-> <<"1","2">>] }

DateFallbackYears == { [num |-> 2025, text |-> <<"2","0","2","5">>], [num |-> 2026, text |-> <<"2","0","2","6">>] }

DateInput(kind, value, y, tail) ==
  [kind |-> kind, value |-> value, ws |-> FALSE,
   yearSrc |-> y.yearSrc, yearText |-> y.yearText, tail |-> tail]

MdyInputs ==
  { DateInput("mdy",
              m.text \o sep \o d.text \o (IF y.text = <<>> THEN <<>> ELSE sep \o y.text),
              y, <<"-">> \o m.padded \o <<"-">> \o d.padded) :
      m \in DateMonths, d \in DateDays, y \in DateYears, sep \in DateSeps }

MonInputs ==
  { DateInput("mon",
              n.text \o gap \o d.text \o (IF y.text = <<>> THEN <<>> ELSE gap \o y.text),
              y, <<"-">> \o n.padded \o <<"-">> \o d.padded) :
      n \in DateNames, d \in DateDays, gap \in { <<" ">>, <<" ","\t">> },
      y \in {x \in DateYears : Len(x.text) \in {0, 4}} }

IsoInputs ==
  { DateInput("iso", v, [yearSrc |-> "unstated", yearText |-> <<>>], <<>>) :
      v \in { <<"2","0","2","6","-","0","1","-","0","5">>, <<"1","9","9","9","-","1","2","-","3","1">>, <<"2","0","2","6","-","1","3","-","4","5">> } }

\* empty and whitespace-only inputs and formats that are not supported
OtherInputs ==
  { DateInput("other", v, [yearSrc |-> "unstated", yearText |-> <<>>], <<>>) :
      v \in { <<>>, <<" "," "," ">>, <<" ","\t"," ">>, <<"s","o","o","n">>, <<"2","0","2","6","-","1","-","0","5">>, <<"1","/","5","/","2","0","2","6","1">>, <<"1","/","/","5">>, <<"5">>,
              <<"J","a","n">>, <<"J","a","n"," ","5"," ","2","6">>, <<"F","o","o"," ","5">>, <<"J","a"," ","5">>, <<"1","/","5","/","2","0","2","6"," ","x">>, <<"0","1",".","0","5",".","2","0","2","6">>,
              <<"1","2","3","/","5">>, <<"2","0","2","6","/","0","1","/","0","5">> } }

\* the input with whitespace around it
padded(in) == [in EXCEPT !.value = <<" ">> \o in.value \o <<" ","\t">>, !.ws = TRUE]

DateValues ==
  LET plain == MdyInputs \cup MonInputs \cup IsoInputs \cup OtherInputs
  IN plain \cup {padded(in) : in \in plain}

DateInputs ==
  { [fn |-> "toIsoDate", in |-> in, fallbackYear |-> fy] :
      in \in DateValues, fy \in DateFallbackYears }

InitDate == appIdle /\ arg \in DateInputs /\ res = Null /\ pc = "ready"

CallToIsoDate ==
  /\ pc = "ready"
  /\ res' = toIsoDate(arg.in.value, arg.fallbackYear.num)
  /\ pc' = "done"
  /\ UNCHANGED <<arg, appVars>>

NextDate == CallToIsoDate

SpecDate == InitDate /\ [][NextDate]_vars

(***************************************************************************)
(* Calls of parseCsv on texts written from rows of fields                  *)
(***************************************************************************)
\* largest number of rows written to a text
MaxParseRows == 3

ParseRows ==
  { << <<"a">>, <<"x",",","y">> >>,
    << <<"s","a","y"," ","\"","h","i","\"">>, <<>> >>,
    << <<" ">>, <<>> >>,
    << <<"l","1","\n","l","2">>, <<"t","\t","b">> >>,
    << <<>> >>,
    << <<"\"">>, <<"c","\r","\n","d">>, <<" ","z"," ">> >> }

\* the field between quotes, each quote of it doubled
RECURSIVE doubledFrom(_, _)
doubledFrom(c, k) ==
  IF k > Len(c) THEN <<>>
  ELSE (IF c[k] = "\"" THEN <<"\"", "\"">> ELSE <<c[k]>>) \o doubledFrom(c, k + 1)

quotedCell(c) == <<"\"">> \o doubledFrom(c, 1) \o <<"\"">>

\* a field as a writer emits it: quoted when it must be, or always
writtenCell(c, quoteAll) ==
  IF quoteAll \/ \E i \in DOMAIN c : c[i] \in {",", "\"", "\t", "\n", "\r"}
    THEN quotedCell(c) ELSE c

RECURSIVE writtenRow(_, _, _, _)
writtenRow(row, delim, quoteAll, k) ==
  IF k > Len(row) THEN <<>>
  ELSE (IF k > 1 THEN delim ELSE <<>>) \o writtenCell(row[k], quoteAll)
         \o writtenRow(row, delim, quoteAll, k + 1)

\* the rows, each but the last ended by eol, the last one too if closed
RECURSIVE writtenText(_, _, _, _, _, _)
writtenText(rows, delim, eol, quoteAll, closed, k) ==
  IF k > Len(rows) THEN <<>>
  ELSE writtenRow(rows[k], delim, quoteAll, 1)
         \o (IF k < Len(rows) \/ closed THEN eol ELSE <<>>)
         \o writtenText(rows, delim, eol, quoteAll, closed, k + 1)

ParseInputs ==
  [fn : {"parseCsv"}, rows : SeqsUpTo(ParseRows, MaxParseRows),
   delim : { <<",">>, <<"\t">> }, eol : { <<"\n">>, <<"\r","\n">>, <<"\r">> },
   quoteAll : BOOLEAN, closed : BOOLEAN]

InitParse == appIdle /\ arg \in ParseInputs /\ res = Null /\ pc = "ready"

CallParseCsv ==
  /\ pc = "ready"
  /\ res' = parseCsv(writtenText(arg.rows, arg.delim, arg.eol, arg.quoteAll, arg.closed, 1))
  /\ pc' = "done"
  /\ UNCHANGED <<arg, appVars>>

NextParse == CallParseCsv

SpecParse == InitParse /\ [][NextParse]_vars

(***************************************************************************)
(* The paycheck normalizers: the map callbacks of handleJsonImport and     *)
(* processOCRData (PaycheckCalculator) and of processPaycheck              *)
(* (paycheckService).  A raw record is a function from the paths the code  *)
(* reads ("gross_amount", "preTaxDeductions.fsa") to tagged values; a path *)
(* that is missing, or under a missing object, reads as undefined.  The id *)
(* of the canonical record (clock and random text) is left out.            *)
(***************************************************************************)
Text(s) == [t |-> "string", s |-> s]

\* data.key, data.obj?.key
field(data, key) == IF key \in DOMAIN data THEN data[key] ELSE Undef

\* the truthiness of a JavaScript value
truthy(a) ==
  CASE a.t = "number" -> a.v # 0
    [] a.t = "string" -> a.s # <<>>
    [] OTHER -> FALSE

\* a || b || ... : the first truthy operand, else the last one
RECURSIVE orChainFrom(_, _)
orChainFrom(vals, k) ==
  IF k >= Len(vals) \/ truthy(vals[k]) THEN vals[k] ELSE orChainFrom(vals, k + 1)

orChain(vals) == orChainFrom(vals, 1)

\* Number(data.k1 || data.k2 || ...) || 0
payNumber(data, keys) ==
  numberOrZero(orChain([k \in DOMAIN keys |-> field(data, keys[k])]))

\* data.k1 || data.k2 || ... || fallback
payText(data, keys, fallback) ==
  orChain([k \in 1..(Len(keys) + 1) |->
             IF k <= Len(keys) THEN field(data, keys[k]) ELSE fallback])

\* medicare without the FSA guard
medicareUnguarded(data) == payNumber(data, <<"medicare_amount", "medicare">>)

\* the medicare field of handleJsonImport and processOCRData
medicareGuarded(data) ==
  LET fsaAmount == payNumber(data, <<"employee_fsa_contribution", "fsa_contribution",
                                     "preTaxDeductions.fsa">>)
      medicareAmount == payNumber(data, <<"medicare_amount", "medicare">>)
  IN  IF fsaAmount > 0 THEN 0 ELSE medicareAmount

\* the fields that handleJsonImport and processOCRData compute alike
formattedPaycheck(data, payDate, source) ==
  [payPeriod |-> payText(data, <<"pay_period", "payPeriod">>, Text(<<>>)),
   grossAmount |-> payNumber(data, <<"gross_amount", "grossAmount">>),
   federalTax |-> payNumber(data, <<"federal_tax_amount", "federalTax">>),
   stateTax |-> payNumber(data, <<"state_tax_amount", "stateTax">>),
   localTax |-> payNumber(data, <<"local_tax_amount", "localTax">>),
   medicare |-> medicareGuarded(data),
   socialSecurity |-> payNumber(data, <<"social_security_amount", "socialSecurity">>),
   preTaxDeductions |->
     [k401 |-> payNumber(data, <<"employee_401k_contribution", "preTaxDeductions.401k">>),
      employer401kMatch |-> payNumber(data, <<"employer_401k_match",
                                              "preTaxDeductions.employer401kMatch">>),
      hsa |-> payNumber(data, <<"employee_hsa_contribution", "hsa_contribution",
                                "preTaxDeductions.hsa">>),
      employerHsaMatch |-> payNumber(data, <<"employer_hsa_match",
                                             "preTaxDeductions.employerHsaMatch">>),
      fsa |-> payNumber(data, <<"employee_fsa_contribution", "fsa_contribution",
                                "preTaxDeductions.fsa">>),
      employerFsaMatch |-> payNumber(data, <<"employer_fsa_match",
                                             "preTaxDeductions.employerFsaMatch">>),
      healthInsurance |-> payNumber(data, <<"health_insurance",
                                            "preTaxDeductions.healthInsurance">>),
      other |-> payNumber(data, <<"other_pre_tax_deductions", "preTaxDeductions.other",
                                  "dental_insurance", "vision_insurance">>)],
   postTaxDeductions |->
     [garnishments |-> payNumber(data, <<"garnishments", "postTaxDeductions.garnishments">>),
      other |-> payNumber(data, <<"other_post_tax_deductions", "postTaxDeductions.other">>)],
   netAmount |-> payNumber(data, <<"net_amount", "netAmount">>),
   payDate |-> payDate,
   source |-> source]

\* the record that the map callback of handleJsonImport builds
jsonPaycheck(data) ==
  formattedPaycheck(data,
                    payText(data, <<"pay_date", "payDate">>, Text(<<>>)),
                    payText(data, <<"source_system", "source">>, Text(<<"I","m","p","o","r","t","e","d">>)))

\* the record that the map callback of processOCRData builds
ocrPaycheck(data, detectedMonth) ==
  formattedPaycheck(data,
                    IF truthy(detectedMonth) THEN Text(detectedMonth.s \o <<"-","0","1">>)
                    ELSE payText(data, <<"pay_date", "payDate">>, Text(<<>>)),
                    Text(<<"O","C","R">>))

\* payDate as processPaycheck leaves it: a YYYY-MM-DD text is kept (the
\* records here carry no other date text)
keptPayDate(d) == d

\* the record that the map callback of processPaycheck builds from an object
processedPaycheck(data) ==
  [payPeriod |-> payText(data, <<"pay_period", "payPeriod">>, Text(<<>>)),
   grossAmount |-> payNumber(data, <<"gross_amount", "grossAmount">>),
   federalTax |-> payNumber(data, <<"federal_tax_amount", "federalTax">>),
   stateTax |-> payNumber(data, <<"state_tax_amount", "stateTax">>),
   localTax |-> payNumber(data, <<"local_tax_amount", "localTax">>),
   medicare |-> medicareUnguarded(data),
   socialSecurity |-> payNumber(data, <<"social_security_amount", "socialSecurity">>),
   preTaxDeductions |->
     [k401 |-> payNumber(data, <<"pre_tax_deductions.employee_401k_contribution",
                                 "pre_tax_deductions.401k_contribution",
                                 "pre_tax_deductions.employee_401k",
                                 "pre_tax_deductions.401k", "preTaxDeductions.401k",
                                 "employee_401k_contribution", "401k_contribution",
                                 "employee_401k", "401k">>),
      employer401kMatch |-> payNumber(data, <<"pre_tax_deductions.employer_401k_match",
                                              "pre_tax_deductions.401k_match",
                                              "pre_tax_deductions.employer_match",
                                              "preTaxDeductions.employer401kMatch",
                                              "employer_401k_match", "401k_match",
                                              "employer_match">>),
      healthInsurance |-> payNumber(data, <<"pre_tax_deductions.health_insurance",
                                            "pre_tax_deductions.healthInsurance",
                                            "preTaxDeductions.healthInsurance",
                                            "health_insurance", "healthInsurance">>),
      other |-> payNumber(data, <<"pre_tax_deductions.other_pre_tax_deductions",
                                  "pre_tax_deductions.other", "preTaxDeductions.other",
                                  "other_pre_tax_deductions", "other">>)],
   postTaxDeductions |->
     [garnishments |-> payNumber(data, <<"post_tax_deductions.garnishments",
                                         "postTaxDeductions.garnishments">>),
      other |-> payNumber(data, <<"post_tax_deductions.other_post_tax_deductions",
                                  "post_tax_deductions.other", "postTaxDeductions.other">>)],
   netAmount |-> payNumber(data, <<"net_amount", "netAmount">>),
   payDate |-> keptPayDate(payText(data, <<"pay_date", "payDate">>, Text(<<>>))),
   source |-> payText(data, <<"source_system", "source">>, Text(<<"O","t","h","e","r">>))]

(***************************************************************************)
(* Calls of the paycheck normalizers on raw records                        *)
(***************************************************************************)
GrossValues == {Undef, Num(0), Num(300000), Num(500000)}
MedicareValues == {Undef, Num(0), Num(3000)}
FsaValues == {Undef, Num(0), Num(5000)}

\* the raw records: the paths below hold a value or are missing, every other
\* path is missing
PayRecords ==
  { g @@ m @@ f @@ p :
      g \in [{"gross_amount", "grossAmount"} -> GrossValues],
      m \in [{"medicare_amount", "medicare"} -> MedicareValues],
      f \in [{"employee_fsa_contribution", "fsa_contribution", "preTaxDeductions.fsa"}
               -> FsaValues],
      p \in [{"pay_date"} -> {Undef, Text(<<"2","0","2","6","-","0","1","-","1","5">>)}] }

PayInputs ==
  [fn : {"normalizePaycheck"}, path : {"json", "ai"}, data : PayRecords,
   detectedMonth : {Undef}]
  \cup [fn : {"normalizePaycheck"}, path : {"ocr"}, data : PayRecords,
        detectedMonth : {Undef, Text(<<"2","0","2","6","-","0","3">>)}]

InitPay == appIdle /\ arg \in PayInputs /\ res = Null /\ pc = "ready"

CallJsonPaycheck ==
  /\ pc = "ready" /\ arg.path = "json"
  /\ res' = jsonPaycheck(arg.data)
  /\ pc' = "done"
  /\ UNCHANGED <<arg, appVars>>

CallOcrPaycheck ==
  /\ pc = "ready" /\ arg.path = "ocr"
  /\ res' = ocrPaycheck(arg.data, arg.detectedMonth)
  /\ pc' = "done"
  /\ UNCHANGED <<arg, appVars>>

CallProcessPaycheck ==
  /\ pc = "ready" /\ arg.path = "ai"
  /\ res' = processedPaycheck(arg.data)
  /\ pc' = "done"
  /\ UNCHANGED <<arg, appVars>>

NextPay == CallJsonPaycheck \/ CallOcrPaycheck \/ CallProcessPaycheck

SpecPay == InitPay /\ [][NextPay]_vars

(***************************************************************************)
(* PaycheckCalculator: the migration effect                                *)
(***************************************************************************)
\* paycheck.preTaxDeductions.hasOwnProperty(k)
hasSub(p, k) == k \in DOMAIN p.preTaxDeductions

\* paycheck.preTaxDeductions[k] || 0
subOrZero(p, k) == IF hasSub(p, k) THEN p.preTaxDeductions[k] ELSE 0

needsMigration(paychecks) ==
  \E i \in DOMAIN paychecks :
    \/ ~hasSub(paychecks[i], "hsa")
    \/ ~hasSub(paychecks[i], "employerHsaMatch")
    \/ ~hasSub(paychecks[i], "fsa")
    \/ ~hasSub(paychecks[i], "employerFsaMatch")
    \/ (subOrZero(paychecks[i], "fsa") > 0 /\ paychecks[i].medicare > 0)

\* medicare left as it is
keepMedicare(fsa, medicare) == medicare

\* fsa > 0 ? 0 : medicare
migratedMedicare(fsa, medicare) == IF fsa > 0 THEN 0 ELSE medicare

\* the record that the map callback of the migration builds
migrateOne(p) ==
  [p EXCEPT !.medicare = migratedMedicare(subOrZero(p, "fsa"), p.medicare),
            !.preTaxDeductions =
               [k401 |-> subOrZero(p, "k401"),
                employer401kMatch |-> subOrZero(p, "employer401kMatch"),
                hsa |-> subOrZero(p, "hsa"),
                employerHsaMatch |-> subOrZero(p, "employerHsaMatch"),
                fsa |-> subOrZero(p, "fsa"),
                employerFsaMatch |-> subOrZero(p, "employerFsaMatch"),
                healthInsurance |-> subOrZero(p, "healthInsurance"),
                other |-> subOrZero(p, "other")]]

\* the collection that the migration effect leaves in the state
migratePaychecks(paychecks) ==
  IF Len(paychecks) > 0 /\ needsMigration(paychecks)
    THEN [i \in DOMAIN paychecks |-> migrateOne(paychecks[i])]
    ELSE paychecks

(***************************************************************************)
(* Calls of the migration on persisted collections                         *)
(***************************************************************************)
\* largest number of paychecks in a persisted collection
MaxPersisted == 2

\* raw records that the persisted paychecks were made from
rawPlain ==
  ("gross_amount" :> Num(500000)) @@ ("medicare_amount" :> Num(3000))
    @@ ("pay_date" :> Text(<<"2","0","2","6","-","0","1","-","1","5">>))
rawFsa ==
  ("gross_amount" :> Num(300000)) @@ ("medicare_amount" :> Num(3000))
    @@ ("employee_fsa_contribution" :> Num(5000)) @@ ("pay_date" :> Text(<<"2","0","2","6","-","0","1","-","3","1">>))
rawNested ==
  ("grossAmount" :> Num(300000)) @@ ("medicare" :> Num(3000))
    @@ ("preTaxDeductions.fsa" :> Num(5000)) @@ ("payDate" :> Text(<<"2","0","2","6","-","0","2","-","1","5">>))

\* a paycheck saved before the FSA and the guard were added: no fsa
\* sub-fields, medicare as extracted
withoutFsa(p) ==
  [p EXCEPT !.preTaxDeductions =
     [k \in DOMAIN p.preTaxDeductions \ {"fsa", "employerFsaMatch"} |-> p.preTaxDeductions[k]],
            !.medicare = 3000]

\* a paycheck saved with the fsa sub-fields and before the guard was added
withoutGuard(p) == [p EXCEPT !.medicare = 3000]

\* persisted paychecks: as the AI path builds them (four sub-fields), as the
\* pasted-JSON and OCR paths build them (eight), and as older versions left
\* them
MigPool ==
  { processedPaycheck(rawPlain), processedPaycheck(rawFsa),
    jsonPaycheck(rawPlain), jsonPaycheck(rawFsa),
    ocrPaycheck(rawNested, Undef),
    withoutFsa(jsonPaycheck(rawPlain)),
    withoutGuard(jsonPaycheck(rawFsa)) }

MigInputs == [fn : {"migratePaychecks"}, paychecks : SeqsUpTo(MigPool, MaxPersisted)]

InitMig == appIdle /\ arg \in MigInputs /\ res = Null /\ pc = "ready"

\* the effect runs once, and once more on its own result
CallMigratePaychecks ==
  /\ pc \in {"ready", "once"}
  /\ res' = migratePaychecks(IF pc = "ready" THEN arg.paychecks ELSE res)
  /\ pc' = IF pc = "ready" THEN "once" ELSE "done"
  /\ UNCHANGED <<arg, appVars>>

NextMig == CallMigratePaychecks

SpecMig == InitMig /\ [][NextMig]_vars

(***************************************************************************)
(* PaycheckCalculator: the component.  calc holds its state (paychecks,    *)
(* isProcessing, error), the item 'paycheck_calculator_data' of            *)
(* localStorage (slot), its running handlers (batch: handleFileUpload;     *)
(* ocr: importOCRData; single: handleFileUpload of the one-file version of *)
(* the component) and its pending timers.  A paycheck carries as id the    *)
(* handler run, the file and the position it came from.                    *)
(***************************************************************************)
\* handler calls that may be made
MaxCalcOps == 2
\* if (files.length > 8)
MaxFilesAtOnce == 8

\* new Date().getFullYear()
CurrentYear == <<"2","0","2","6">>

NoError == [kind |-> "none"]
NoMonth == <<>>
handlerIdle == [pc |-> "idle"]

\* getItem gives null: nothing was saved
NoItem == [json |-> "none", items |-> <<>>]

\* JSON.stringify of the collection, and JSON.parse of the item
stringifyPaychecks(paychecks) == [json |-> "array", items |-> paychecks]
parsePaychecks(item) == item.items

\* the item of localStorage when the component mounts
SavedPaychecks ==
  { NoItem,
    stringifyPaychecks(<< ("id" :> <<"saved", 1>>) @@ withoutGuard(jsonPaycheck(rawFsa)) >>) }

InitCalc ==
  /\ appAside /\ fnIdle
  /\ \E item \in SavedPaychecks :
       calc = [paychecks |-> <<>>, isProcessing |-> FALSE, error |-> NoError, slot |-> item,
               mounted |-> FALSE, batch |-> handlerIdle, ocr |-> handlerIdle,
               single |-> handlerIdle, timers |-> {}, lastBatch |-> handlerIdle, nOps |-> 0]

calcFrame == UNCHANGED <<appMain, rendered, fnVars>>

firstId(paychecks) == IF Len(paychecks) > 0 THEN paychecks[1].id ELSE <<>>

\* the state after setPaychecks(next) and the effects that follow it: the
\* migration runs when the id of the first paycheck has changed, the save
\* effect writes the collection that results
afterSetPaychecks(c, next) ==
  LET migrated == IF firstId(next) # firstId(c.paychecks) THEN migratePaychecks(next) ELSE next
  IN [c EXCEPT !.paychecks = migrated, !.slot = stringifyPaychecks(migrated)]

withId(p, run, file, index) == ("id" :> <<run, file, index>>) @@ p

\* the component mounts: the load effect, then the migration and save effects
mountCalc ==
  /\ ~calc.mounted
  /\ calc' = [afterSetPaychecks(calc, IF calc.slot # NoItem THEN parsePaychecks(calc.slot)
                                      ELSE <<>>)
                EXCEPT !.mounted = TRUE]
  /\ calcFrame

calcReady == calc.mounted /\ calc.nOps < MaxCalcOps

(***************************************************************************)
(* handleJsonImport (paychecks)                                            *)
(***************************************************************************)
\* what JSON.parse makes of a text: it throws, or gives an array
Unparseable == [ok |-> FALSE, items |-> <<>>]
Parsed(items) == [ok |-> TRUE, items |-> items]

PayTexts == { Unparseable, Parsed(<<rawFsa>>), Parsed(<<JsonNull>>) }

\* data.pay_period raises a TypeError when data is null
payThrows(items) == \E k \in DOMAIN items : items[k] = JsonNull

calcHandleJsonImport(text) ==
  /\ calcReady /\ ~calc.isProcessing
  /\ IF ~text.ok \/ payThrows(text.items)
       THEN calc' = [calc EXCEPT !.error = [kind |-> "invalidJson"], !.nOps = @ + 1]
       ELSE LET formattedPaychecks ==
                  [k \in DOMAIN text.items |->
                     withId(jsonPaycheck(text.items[k]), <<"json", calc.nOps>>, "text", k)]
            IN calc' = [afterSetPaychecks(calc, formattedPaychecks \o calc.paychecks)
                          EXCEPT !.error = NoError, !.nOps = @ + 1]
  /\ calcFrame

clearAllData ==
  /\ calcReady
  /\ calc' = [afterSetPaychecks(calc, <<>>) EXCEPT !.nOps = @ + 1]
  /\ calcFrame

(***************************************************************************)
(* importOCRData and processOCRData                                        *)
(***************************************************************************)
\* the files the user can pick: file.webkitRelativePath || file.name
OcrFiles ==
  { [name |-> "a.json", path |-> <<"J","a","n","O","C","R","/","a",".","j","s","o","n">>],
    [name |-> "b.json", path |-> <<"F","e","b","O","C","R","/","b",".","j","s","o","n">>],
    [name |-> "c.json", path |-> <<"c",".","j","s","o","n">>] }

\* largest number of files of an OCR import
MaxOcrFiles == 2

OcrBatches ==
  { <<f>> : f \in OcrFiles }
  \cup { b \in { <<f, g>> : f, g \in OcrFiles } : b[1] # b[2] }

\* what the files hold
OcrContents == { Unparseable, Parsed(<<rawPlain>>), Parsed(<<rawNested, JsonNull>>) }

isLetter(c) == c \in UpperSet \cup LowerSet

\* the length of the run of letters that path starts with
RECURSIVE lettersFrom(_, _)
lettersFrom(path, k) ==
  IF k <= Len(path) /\ isLetter(path[k]) THEN lettersFrom(path, k + 1) ELSE k - 1

\* filePath.match(/^([A-Za-z]+)OCR\//): the first group, NoMonth without a
\* match.  The run of letters has to end with "OCR" before a "/".
monthMatch(path) ==
  LET n == lettersFrom(path, 1)
  IN IF n >= 4 /\ n < Len(path) /\ path[n + 1] = "/" /\ SubSeq(path, n - 2, n) = <<"O","C","R">>
       THEN SubSeq(path, 1, n - 3)
       ELSE NoMonth

ocrMonthMap ==
  << [key |-> <<"J","a","n">>, num |-> <<"0","1">>], [key |-> <<"F","e","b">>, num |-> <<"0","2">>],
     [key |-> <<"M","a","r">>, num |-> <<"0","3">>], [key |-> <<"A","p","r">>, num |-> <<"0","4">>],
     [key |-> <<"M","a","y">>, num |-> <<"0","5">>], [key |-> <<"J","u","n">>, num |-> <<"0","6">>],
     [key |-> <<"J","u","l">>, num |-> <<"0","7">>], [key |-> <<"A","u","g">>, num |-> <<"0","8">>],
     [key |-> <<"S","e","p">>, num |-> <<"0","9">>], [key |-> <<"O","c","t">>, num |-> <<"1","0">>],
     [key |-> <<"N","o","v">>, num |-> <<"1","1">>], [key |-> <<"D","e","c">>, num |-> <<"1","2">>] >>

\* monthMap[monthName], NoMonth for a name that is no key
monthNum(monthName) ==
  IF \E i \in DOMAIN ocrMonthMap : ocrMonthMap[i].key = monthName
    THEN ocrMonthMap[CHOOSE i \in DOMAIN ocrMonthMap : ocrMonthMap[i].key = monthName].num
    ELSE NoMonth

\* the month of this file alone: `${currentYear}-${monthNum}`, or NoMonth
monthOfPath(path) ==
  IF monthMatch(path) # NoMonth /\ monthNum(monthMatch(path)) # NoMonth
    THEN CurrentYear \o <<"-">> \o monthNum(monthMatch(path))
    ELSE NoMonth

\* detectedMonth after the test if (monthMatch && !detectedMonth)
detectMonth(detectedMonth, path) ==
  IF monthMatch(path) # NoMonth /\ detectedMonth = NoMonth
    THEN monthOfPath(path)
    ELSE detectedMonth

\* processOCRData(importedData, detectedMonth): the paychecks it puts in
\* front of the collection
processOCRData(items, detectedMonth, run, file) ==
  [k \in DOMAIN items |->
     withId(ocrPaycheck(items[k], IF detectedMonth = NoMonth THEN Undef ELSE Text(detectedMonth)),
            run, file, k)]

\* input.onchange of importOCRData: a reader is started for every file
importOCRData(files) ==
  /\ calcReady /\ ~calc.isProcessing
  /\ calc.ocr.pc = "idle"
  /\ calc' = [calc EXCEPT !.nOps = @ + 1,
                          !.ocr = [pc |-> "reading", run |-> <<"ocr", calc.nOps>>, files |-> files,
                                   reading |-> DOMAIN files, loaded |-> {},
                                   totalImported |-> 0, processedFiles |-> 0,
                                   detectedMonth |-> NoMonth]]
  /\ calcFrame

\* reader.onload of the i-th file, which holds content
ocrLoaded(i, content) ==
  /\ calc.ocr.pc = "reading"
  /\ i \in calc.ocr.reading
  /\ LET o == calc.ocr
         file == o.files[i]
         thrown == ~content.ok \/ payThrows(content.items)
         detectedMonth == IF content.ok THEN detectMonth(o.detectedMonth, file.path)
                          ELSE o.detectedMonth
         totalImported == IF thrown THEN o.totalImported
                          ELSE o.totalImported + Len(content.items)
         processedFiles == o.processedFiles + 1
         last == processedFiles = Len(o.files) /\ totalImported > 0
         c1 == IF thrown THEN [calc EXCEPT !.error = [kind |-> "parseFailed", file |-> file.name]]
               ELSE afterSetPaychecks(calc,
                      processOCRData(content.items, detectedMonth, o.run, file.name)
                        \o calc.paychecks)
         c2 == IF last
                 THEN [c1 EXCEPT !.error = [kind |-> "imported", n |-> totalImported,
                                            files |-> Len(o.files), month |-> detectedMonth],
                                 !.timers = @ \cup {"clearError"}]
                 ELSE c1
     IN calc' = [c2 EXCEPT !.ocr =
                   IF processedFiles = Len(o.files) THEN handlerIdle
                   ELSE [o EXCEPT !.reading = @ \ {i}, !.loaded = @ \cup {i},
                                  !.totalImported = totalImported,
                                  !.processedFiles = processedFiles,
                                  !.detectedMonth = detectedMonth]]
  /\ calcFrame

\* setTimeout(() => setError(null), 3000)
clearErrorTimer ==
  /\ "clearError" \in calc.timers
  /\ calc' = [calc EXCEPT !.error = NoError, !.timers = @ \ {"clearError"}]
  /\ calcFrame

(***************************************************************************)
(* handleFileUpload (several files) and processPaycheck                    *)
(***************************************************************************)
PayFiles == {"a.pdf", "b.pdf", "c.pdf"}

\* the selections of the user: one file, two or three files, and nine files
PayBatches ==
  { <<"a.pdf">>, <<"a.pdf", "b.pdf">>, <<"b.pdf", "a.pdf", "c.pdf">>,
    <<"f1", "f2", "f3", "f4", "f5", "f6", "f7", "f8", "f9">> }

\* what the extractor answers: the parsed array
PayAnswers == { <<>>, <<rawPlain>>, <<rawFsa, JsonNull>> }

\* processPaycheck: an element that is no object is dropped
validatedPaychecks(answer, run, file) ==
  LET objects == SelectSeq([k \in DOMAIN answer |-> [index |-> k, data |-> answer[k]]],
                           LAMBDA e : e.data # JsonNull)
  IN [j \in DOMAIN objects |->
        withId(processedPaycheck(objects[j].data), run, file, objects[j].index)]

calcHandleFileUpload(files) ==
  /\ calcReady /\ ~calc.isProcessing
  /\ Len(files) > 0
  /\ IF Len(files) > MaxFilesAtOnce
       THEN calc' = [calc EXCEPT !.nOps = @ + 1, !.error = [kind |-> "tooManyFiles"],
                                 !.lastBatch = [pc |-> "rejected", files |-> files]]
       ELSE calc' = [calc EXCEPT !.nOps = @ + 1, !.isProcessing = TRUE, !.error = NoError,
                                 !.batch = [pc |-> "read", run |-> <<"upload", calc.nOps>>,
                                            files |-> files, k |-> 1,
                                            allNewPaychecks |-> <<>>, failedFiles |-> <<>>,
                                            outcome |-> [i \in DOMAIN files |-> "waiting"],
                                            attempts |-> [i \in DOMAIN files |-> 0],
                                            answers |-> [i \in DOMAIN files |-> <<>>]]]
  /\ calcFrame

\* the FileReader of the current file gives its content
batchRead ==
  /\ calc.batch.pc = "read"
  /\ calc' = [calc EXCEPT !.batch.pc = "extract",
                          !.batch.outcome[calc.batch.k] = "running",
                          !.batch.attempts[calc.batch.k] = @ + 1]
  /\ calcFrame

\* the failed files are named only when no file gave a paycheck
batchMessageWhenAllFail(allNewPaychecks, failedFiles) ==
  IF Len(allNewPaychecks) > 0 THEN NoError
  ELSE [kind |-> "noPaycheckData", failed |-> failedFiles]

\* the message that the result block of handleFileUpload leaves in error
batchMessage(allNewPaychecks, failedFiles) ==
  IF Len(allNewPaychecks) > 0
    THEN IF Len(failedFiles) > 0
           THEN [kind |-> "partly", n |-> Len(allNewPaychecks), failed |-> failedFiles]
           ELSE NoError
    ELSE [kind |-> "noPaycheckData", failed |-> failedFiles]

\* the rest of handleFileUpload once the current file is dealt with: the next
\* file, or after the last one the result, the finally block and its timer
batchNext(b) ==
  IF b.k < Len(b.files)
    THEN [calc EXCEPT !.batch = [b EXCEPT !.pc = "read", !.k = @ + 1]]
    ELSE LET shown == [IF Len(b.allNewPaychecks) > 0
                         THEN afterSetPaychecks(calc, b.allNewPaychecks \o calc.paychecks)
                         ELSE calc
                       EXCEPT !.error = batchMessage(b.allNewPaychecks, b.failedFiles)]
         IN [shown EXCEPT !.batch = handlerIdle,
                          !.timers = @ \cup {"clearProcessing"},
                          !.lastBatch = [b EXCEPT !.pc = "finished"]]

\* processPaycheck returns
batchExtracted(answer) ==
  /\ calc.batch.pc = "extract"
  /\ LET b == calc.batch
         newPaychecks == validatedPaychecks(answer, b.run, b.files[b.k])
     IN calc' = batchNext(
          IF Len(newPaychecks) > 0
            THEN [b EXCEPT !.allNewPaychecks = @ \o newPaychecks, !.outcome[b.k] = "ok",
                           !.answers[b.k] = answer]
            ELSE [b EXCEPT !.failedFiles = Append(@, b.files[b.k]), !.outcome[b.k] = "empty"])
  /\ calcFrame

\* the read or processPaycheck rejects: the catch block of the file
batchFileFails ==
  /\ calc.batch.pc \in {"read", "extract"}
  /\ LET b == calc.batch
     IN calc' = batchNext([b EXCEPT !.failedFiles = Append(@, b.files[b.k]),
                                    !.outcome[b.k] = "error",
                                    !.attempts[b.k] = IF b.pc = "read" THEN @ + 1 ELSE @])
  /\ calcFrame

\* setTimeout(() => { setIsProcessing(false); ... }, 1000)
clearProcessingTimer ==
  /\ "clearProcessing" \in calc.timers
  /\ calc' = [calc EXCEPT !.isProcessing = FALSE, !.timers = @ \ {"clearProcessing"}]
  /\ calcFrame

(***************************************************************************)
(* handleFileUpload of PaycheckCalculator.tsx (one file)                   *)
(***************************************************************************)
singleHandleFileUpload(file) ==
  /\ calcReady /\ ~calc.isProcessing
  /\ calc.batch.pc = "idle"
  /\ calc' = [calc EXCEPT !.nOps = @ + 1, !.isProcessing = TRUE, !.error = NoError,
                          !.single = [pc |-> "read", run |-> <<"single", calc.nOps>>,
                                      file |-> file]]
  /\ calcFrame

\* reader.onload up to its await
singleRead ==
  /\ calc.single.pc = "read"
  /\ calc' = [calc EXCEPT !.single.pc = "extract"]
  /\ calcFrame

\* processPaycheck returns: the rest of reader.onload
singleExtracted(answer) ==
  /\ calc.single.pc = "extract"
  /\ LET newPaychecks == validatedPaychecks(answer, calc.single.run, calc.single.file)
         c1 == IF Len(newPaychecks) = 0
                 THEN [calc EXCEPT !.error = [kind |-> "noPaycheckData", failed |-> <<>>]]
                 ELSE afterSetPaychecks(calc, newPaychecks \o calc.paychecks)
     IN calc' = [c1 EXCEPT !.isProcessing = FALSE, !.single = handlerIdle]
  /\ calcFrame

\* the read fails (the reader has no onerror), or processPaycheck rejects
\* inside reader.onload: nothing catches it and the handler is over
singleFails ==
  /\ calc.single.pc \in {"read", "extract"}
  /\ calc' = [calc EXCEPT !.single = handlerIdle]
  /\ calcFrame

NextCalc ==
  \/ mountCalc
  \/ \E text \in PayTexts : calcHandleJsonImport(text)
  \/ clearAllData
  \/ \E files \in OcrBatches : importOCRData(files)
  \/ \E i \in 1..MaxOcrFiles, content \in OcrContents : ocrLoaded(i, content)
  \/ clearErrorTimer
  \/ \E files \in PayBatches : calcHandleFileUpload(files)
  \/ batchRead
  \/ \E answer \in PayAnswers : batchExtracted(answer)
  \/ batchFileFails
  \/ clearProcessingTimer
  \/ \E file \in PayFiles : singleHandleFileUpload(file)
  \/ singleRead
  \/ \E answer \in PayAnswers : singleExtracted(answer)
  \/ singleFails

SpecCalc == InitCalc /\ [][NextCalc]_vars

\* what the environment owes: a read and an extraction call in flight return
\* or fail, and a timer that was set fires
inFlight ==
  \/ batchRead
  \/ \E answer \in PayAnswers : batchExtracted(answer)
  \/ batchFileFails
  \/ singleRead
  \/ \E answer \in PayAnswers : singleExtracted(answer)
  \/ singleFails

SpecCalcFair ==
  /\ InitCalc /\ [][NextCalc]_vars
  /\ WF_vars(inFlight)
  /\ WF_vars(clearProcessingTimer)

(***************************************************************************)
(* App: the persistence effects.  rendered holds the two items of          *)
(* localStorage that the save effects write ('smartspend_mappings' and     *)
(* 'smartspend_history'), what the load effect has queued, and the         *)
(* dependencies that the save effects last ran with.                       *)
(***************************************************************************)
TransactionFields == {"id", "date", "merchant", "amount", "category", "originalCategory"}

\* JSON.stringify leaves out a member whose value is undefined
isWritten(t, f) == f \in DOMAIN t /\ (f = "originalCategory" => t[f] # Null)

\* the object that JSON.stringify writes for transaction t
jsonObject(t) == [f \in {g \in TransactionFields : isWritten(t, g)} |-> t[f]]

\* the item is read as an empty array
parseAsEmpty(item) == <<>>

\* JSON.stringify(transactions) and JSON.parse of the item
stringifyTransactions(ts) == [json |-> "array", items |-> [k \in DOMAIN ts |-> jsonObject(ts[k])]]
parseTransactions(item) == item.items

\* JSON.stringify(userMappings) and JSON.parse of the item
stringifyMappings(um) == [json |-> "object", items |-> um]
parseMappings(item) == item.items

\* transactions that an earlier session has saved: one without
\* originalCategory (from a CSV file), one with it (from the extractor)
savedTransactions ==
  << [id |-> <<"s","a","v","e","d","-","0">>, date |-> <<"2","0","2","6","-","0","1","-","1","5">>, merchant |-> <<"S","t","a","r","b","u","c","k","s">>, amount |-> 450,
      category |-> "Dining", originalCategory |-> Null],
     [id |-> <<"s","a","v","e","d","-","1">>, date |-> <<"2","0","2","6","-","0","2","-","0","3">>, merchant |-> <<"S","h","e","l","l"," ","G","a","s">>, amount |-> 4000,
      category |-> "Custom", originalCategory |-> "Transport & Fuel"] >>

\* the two items when the application starts
SavedItems ==
  { [mappings |-> NoItem, history |-> NoItem],
    [mappings |-> stringifyMappings(<<[key |-> <<"S","h","e","l","l"," ","G","a","s">>, category |-> "Custom"]>>),
     history |-> NoItem],
    [mappings |-> stringifyMappings(<<[key |-> <<"S","h","e","l","l"," ","G","a","s">>, category |-> "Custom"]>>),
     history |-> stringifyTransactions(savedTransactions)] }

dependencies == [userMappings |-> userMappings, transactions |-> transactions]

InitStore ==
  /\ transactions = <<>>
  /\ userMappings = <<>>
  /\ selectedMonth \in Months
  /\ isProcessing = FALSE
  /\ error = Null
  /\ localStorage = {}
  /\ upload = idle
  /\ now = 0
  /\ origin = <<>>
  /\ taught = <<>>
  /\ lastImport = noImport
  /\ nImports = 0
  /\ nEdits = 0
  /\ fnIdle
  /\ calc = Null
  /\ \E saved \in SavedItems :
       rendered = [stage |-> "start", items |-> saved, saved |-> saved,
                   queued |-> [userMappings |-> NoItem, transactions |-> NoItem],
                   deps |-> dependencies]

storeFrame ==
  UNCHANGED <<selectedMonth, isProcessing, error, localStorage, upload, now, taught, lastImport,
              nImports, nEdits, fnVars, calc>>

\* the effects of the first commit, in the order of the component: the load
\* effect reads the two items and queues the state it found, then the two
\* save effects write the state of the first render
mountEffects ==
  /\ rendered.stage = "start"
  /\ rendered' = [rendered EXCEPT
                    !.stage = "loading",
                    !.queued = [userMappings |-> rendered.items.mappings,
                                transactions |-> rendered.items.history],
                    !.items = [mappings |-> stringifyMappings(userMappings),
                               history |-> stringifyTransactions(transactions)],
                    !.deps = dependencies]
  /\ UNCHANGED <<transactions, userMappings, origin>>
  /\ storeFrame

\* the render that follows the load effect: setUserMappings(JSON.parse(..))
\* and setTransactions(JSON.parse(..)) for the items that were there
renderLoaded ==
  /\ rendered.stage = "loading"
  /\ rendered' = [rendered EXCEPT !.stage = "mounted"]
  /\ userMappings' = IF rendered.queued.userMappings # NoItem
                       THEN parseMappings(rendered.queued.userMappings)
                       ELSE userMappings
  /\ transactions' = IF rendered.queued.transactions # NoItem
                       THEN parseTransactions(rendered.queued.transactions)
                       ELSE transactions
  /\ origin' = [k \in DOMAIN transactions' |-> [src |-> "saved", idx |-> k]]
  /\ storeFrame

\* the save effects after a render: each runs when its dependency changed
runSaveEffects ==
  /\ rendered.stage = "mounted"
  /\ rendered.deps # dependencies
  /\ rendered' = [rendered EXCEPT
                    !.items = [mappings |-> IF rendered.deps.userMappings # userMappings
                                              THEN stringifyMappings(userMappings)
                                              ELSE rendered.items.mappings,
                               history |-> IF rendered.deps.transactions # transactions
                                             THEN stringifyTransactions(transactions)
                                             ELSE rendered.items.history],
                    !.deps = dependencies]
  /\ UNCHANGED <<transactions, userMappings, origin>>
  /\ storeFrame

\* the effects of a render have run
settled == rendered.stage = "mounted" /\ rendered.deps = dependencies

\* the effects of a render run before the next event is handled
NextStore ==
  \/ mountEffects
  \/ renderLoaded
  \/ runSaveEffects
  \/ settled /\ Tick
  \/ settled /\ \E file \in Files : handleFileUpload(file)
  \/ settled /\ csvTextRead
  \/ settled /\ hashDone
  \/ settled /\ \E rawData \in AiAnswers : aiReturns(rawData)
  \/ settled /\ uploadFails
  \/ settled /\ \E k \in DOMAIN JsonTexts : handleJsonImport(k)
  \/ settled /\ \E id \in {t.id : t \in Range(monthTransactions)},
                   newCategory \in RecatChoices : updateCategory(id, newCategory)
  \/ settled /\ \E id \in {t.id : t \in Range(monthTransactions)} : removeTransaction(id)
  \/ settled /\ clearMonth

SpecStore == InitStore /\ [][NextStore]_vars

(***************************************************************************)
(* Properties of the categorizer (SpecCat)                                 *)
(***************************************************************************)
catDone == pc = "done" /\ arg.fn = "categorize"

\* the merchant of the call, normalized, and its lower-cased form
catMerchant == normalizeMerchant(arg.merchant)
catLower == toLowerCase(catMerchant)

\* the categories of the entries of the call's table whose key is exactly the
\* normalized merchant
catExact == {arg.userMappings[i].category :
               i \in {j \in DOMAIN arg.userMappings : arg.userMappings[j].key = catMerchant}}

\* C1: for a merchant whose normalized text is not empty, a negative amount
\* or a match of the refund pattern gives "Payment/Credit", whatever the
\* mapping table and the keyword rules say about the merchant.
C1_RefundRuleOutranks ==
  (catDone /\ catMerchant # <<>> /\ (arg.amount < 0 \/ refundPattern(catLower)))
    => res = "Payment/Credit"

\* C1 happens: the amount is not negative, the merchant matches the refund
\* pattern, has a valid mapping entry and matches a keyword rule, and the
\* result is "Payment/Credit".
C1_Witness ==
  /\ catDone /\ arg.amount >= 0 /\ refundPattern(catLower)
  /\ catExact \cap CategorySet # {}
  /\ keywordCategory(catMerchant) # Null
  /\ res = "Payment/Credit"

\* C2 as stated: with the entry m -> c for the normalized merchant in the
\* table and a positive amount, the result is c unless the refund rule applies.
C2_ExactMappingWins ==
  (catDone /\ arg.amount > 0 /\ ~refundRule(catLower, arg.amount))
    => \A c \in catExact : res = c

\* C2 amended: the same for a merchant whose normalized text is not empty and
\* a category c of the fixed category set.
C2_ExactValidMappingWins ==
  (catDone /\ arg.amount > 0 /\ ~refundRule(catLower, arg.amount) /\ catMerchant # <<>>)
    => \A c \in catExact \cap CategorySet : res = c

\* C2 happens: the exact entry decides against a keyword rule and against an
\* earlier entry whose key differs only in case.
C2_Witness ==
  /\ catDone /\ arg.amount > 0 /\ ~refundRule(catLower, arg.amount)
  /\ catExact \cap CategorySet # {}
  /\ res \in catExact
  /\ keywordCategory(catMerchant) \notin {Null, res}
  /\ \E i \in DOMAIN arg.userMappings :
       /\ arg.userMappings[i].key # catMerchant
       /\ toLowerCase(arg.userMappings[i].key) = catLower
       /\ arg.userMappings[i].category \in CategorySet \ {res}
       /\ \A j \in DOMAIN arg.userMappings : arg.userMappings[j].key = catMerchant => i < j

(***************************************************************************)
(* Properties of the CSV reader (SpecCsv)                                  *)
(***************************************************************************)
csvDone == pc = "done" /\ arg.fn = "parseTransactionsFromCsv"

\* the date a data row resolves to for the target month of the call
csvResolved(row) == toIsoDate(row.date, arg.month.year)

\* the rows of the call that the target month keeps, in file order
csvExpected ==
  SelectSeq(arg.rows,
            LAMBDA row : /\ csvResolved(row) # NoStr
                         /\ startsWith(csvResolved(row), arg.month.key)
                         /\ ~blank(row.merchant))

\* C8: the result holds, in file order, exactly the rows with a non-blank
\* merchant whose date resolves (with the year of the target month as the
\* fallback) to a date that starts with the target month; so a row that
\* resolves to 2026-02-03 is left out for 2026-01 and kept for 2026-02.
C8_CsvKeepsTargetMonthInOrder ==
  csvDone =>
    /\ Len(res) = Len(csvExpected)
    /\ \A k \in DOMAIN res :
         /\ res[k].date = csvResolved(csvExpected[k])
         /\ res[k].merchant = csvExpected[k].merchant
    /\ \A k \in DOMAIN arg.rows :
         (csvResolved(arg.rows[k]) = <<"2","0","2","6","-","0","2","-","0","3">> /\ ~blank(arg.rows[k].merchant)) =>
           /\ arg.month.key = <<"2","0","2","6","-","0","1">> =>
                \A j \in DOMAIN res : res[j].date # <<"2","0","2","6","-","0","2","-","0","3">>
           /\ arg.month.key = <<"2","0","2","6","-","0","2">> =>
                \E j \in DOMAIN res : res[j].date = <<"2","0","2","6","-","0","2","-","0","3">>
                                      /\ res[j].merchant = arg.rows[k].merchant

\* C8 happens: for target month 2026-01 a file with a row of 2026-02-03
\* before a row of January gives the January row alone.
C8_Witness ==
  /\ csvDone /\ arg.month.key = <<"2","0","2","6","-","0","1">>
  /\ Len(arg.rows) = 2
  /\ csvResolved(arg.rows[1]) = <<"2","0","2","6","-","0","2","-","0","3">>
  /\ Len(res) = 1 /\ res[1].date = <<"2","0","2","6","-","0","1","-","1","5">>

(***************************************************************************)
(* Properties of the transaction normalizer (SpecFin)                      *)
(***************************************************************************)
finDone == pc = "done" /\ arg.fn = "finalize"

\* four digits, a dash, two digits, a dash, two digits
isYyyyMmDd(d) ==
  /\ d # NoStr
  /\ Len(d) = 10
  /\ d[5] = "-" /\ d[8] = "-"
  /\ \A i \in {1, 2, 3, 4, 6, 7, 9, 10} : d[i] \in DigitSet

\* the records of the call with a date of that shape, in input order
finKept == SelectSeq(arg.raw, LAMBDA t : isYyyyMmDd(t.date))

\* the amount of a raw record as a number: an invalid or missing one is 0
finCoerced(t) == IF t.amount.t = "number" THEN t.amount.v ELSE 0

\* C9: the result has one transaction for each record whose date has the
\* shape YYYY-MM-DD, in input order, and none for the others; its amount is
\* the absolute value of the coerced amount and its category is the one the
\* categorizer gives for the signed amount.
C9_FinalizeKeepsIsoDatedInOrder ==
  finDone =>
    /\ Len(res) = Len(finKept)
    /\ \A k \in DOMAIN res :
         LET t == finKept[k]
         IN /\ res[k].date = t.date
            /\ res[k].merchant = normalizeMerchant(t.merchant)
            /\ res[k].amount = (IF finCoerced(t) < 0 THEN -finCoerced(t) ELSE finCoerced(t))
            /\ res[k].category = categorizeTransaction(t.merchant, finCoerced(t), arg.userMappings)
            /\ (finCoerced(t) < 0 /\ normalizeMerchant(t.merchant) # <<>>)
                 => res[k].category = "Payment/Credit"

\* C9 happens: of two records the first has a date of another shape and is
\* dropped, the second has a negative amount and a merchant with no refund
\* word and is stored with the magnitude and "Payment/Credit".
C9_Witness ==
  /\ finDone /\ Len(arg.raw) = 2 /\ Len(res) = 1
  /\ ~isYyyyMmDd(arg.raw[1].date)
  /\ finCoerced(arg.raw[2]) < 0
  /\ ~refundPattern(toLowerCase(normalizeMerchant(arg.raw[2].merchant)))
  /\ res[1].amount = -finCoerced(arg.raw[2])
  /\ res[1].category = "Payment/Credit"

(***************************************************************************)
(* Properties of the record collection (Spec)                              *)
(***************************************************************************)
\* the number of transactions a step puts in front of the collection
nAddedByStep == Len(transactions') - Len(transactions)

\* a step that completes an import
importCompletes == lastImport'.seq = lastImport.seq + 1

\* C3: a transaction that an import adds after the user chose category c for
\* its merchant has category c (the refund rule cannot apply to an added
\* transaction: imports drop "Payment/Credit"), also when the upload was
\* started before the user chose.
C3_LaterImportsFollowRecategorization ==
  [][\A k \in 1..nAddedByStep :
       LET t == transactions'[k]
       IN (t.merchant # <<>> /\ get(taught, t.merchant) \in CategorySet \ {"Payment/Credit"})
            => t.category = get(taught, t.merchant)]_vars

\* C4: updateCategory(id, c) changes one transaction, the one with that id,
\* to category c and sets the mapping of its merchant to c; every other
\* transaction and mapping entry stays; an id that is not in the collection
\* changes nothing.
C4_RecategorizeChangesOne ==
  [][\A id \in {t.id : t \in Range(transactions)} \cup {absentId}, c \in RecatChoices :
       updateCategory(id, c) =>
         \/ /\ \A i \in DOMAIN transactions : transactions[i].id # id
            /\ UNCHANGED <<transactions, userMappings>>
         \/ \E i \in DOMAIN transactions :
              /\ transactions[i].id = id
              /\ transactions' = [transactions EXCEPT ![i].category = c]
              /\ userMappings' = put(userMappings, transactions[i].merchant, c)]_vars

\* C5: no two transactions of the collection have the same id.
C5_IdsUnique ==
  \A i, j \in DOMAIN transactions : transactions[i].id = transactions[j].id => i = j

\* C6: the collection never holds two transactions with the same date,
\* merchant and amount that come from the same record of the same source.
C6_NoDuplicateOfSameSource ==
  \A i, j \in DOMAIN transactions :
    ( /\ origin[i] = origin[j]
      /\ transactions[i].date = transactions[j].date
      /\ transactions[i].merchant = transactions[j].merchant
      /\ transactions[i].amount = transactions[j].amount ) => i = j

\* C7: the collection grows only when an import completes; each transaction
\* the import adds has a date that starts with the month selected when the
\* import was started and a category other than "Payment/Credit"; an import
\* of which every canonical record is outside that month or "Payment/Credit"
\* leaves the collection as it was.
C7_ImportsKeepMonthAndDropPayments ==
  [][ /\ nAddedByStep > 0 => importCompletes
      /\ importCompletes =>
           /\ nAddedByStep = lastImport'.nAdded
           /\ \A k \in 1..nAddedByStep :
                /\ startsWith(transactions'[k].date, lastImport'.month)
                /\ transactions'[k].category # "Payment/Credit"
           /\ (\A k \in DOMAIN lastImport'.all :
                 \/ ~startsWith(lastImport'.all[k].date, lastImport'.month)
                 \/ lastImport'.all[k].category = "Payment/Credit")
                => transactions' = transactions ]_vars

\* C7 happens: an upload through the extractor has completed for a month
\* that is no longer the selected one; it added a transaction and dropped a
\* record of another month.
C7_Witness ==
  /\ lastImport.kind = "ai" /\ lastImport.month # selectedMonth
  /\ lastImport.nAdded >= 1 /\ Len(lastImport.all) > lastImport.nAdded
  /\ \E k \in DOMAIN lastImport.all : ~startsWith(lastImport.all[k].date, lastImport.month)
  /\ Len(transactions) >= lastImport.nAdded
  /\ \A k \in 1..lastImport.nAdded : startsWith(transactions[k].date, lastImport.month)

\* C10: every merchant in the collection is non-empty, trimmed and has no
\* two whitespace characters in a row.
C10_MerchantsCanonical ==
  \A i \in DOMAIN transactions :
    LET m == transactions[i].merchant
    IN /\ m # <<>>
       /\ ~IsSpace(m[1]) /\ ~IsSpace(m[Len(m)])
       /\ \A k \in 1..(Len(m) - 1) : ~(IsSpace(m[k]) /\ IsSpace(m[k + 1]))

(***************************************************************************)
(* Properties of one import: records that cannot be read                   *)
(***************************************************************************)
\* the elements of a pasted array that, taken alone, are objects that give a
\* transaction of the month
importableAlone(items, um, month, clock) ==
  {k \in DOMAIN items :
     /\ items[k].kind = "object"
     /\ finalizedForMonth(jsonRaw(<<items[k]>>), um, month, clock) # <<>>}

\* C11: an import of pasted JSON adds one transaction for each element that
\* can be imported by itself; an element that cannot be read (a bad date, an
\* element that is not an object) is left out and does not keep the others
\* from being imported.
C11_UnreadableRecordIsSkipped ==
  [][\A k \in DOMAIN JsonTexts :
       handleJsonImport(k) =>
         nAddedByStep =
           Cardinality(importableAlone(JsonTexts[k], userMappings, selectedMonth, now))]_vars

(***************************************************************************)
(* Properties of the categories in the record collection                   *)
(***************************************************************************)
\* C12: every transaction of the collection has a category of the fixed
\* category set, whatever the mapping table holds.
C12_CategoriesInFixedSet ==
  \A i \in DOMAIN transactions : transactions[i].category \in CategorySet

\* C12 happens: the mapping holds a label outside the set for the merchant
\* of a transaction that an import has added.
C12_Witness ==
  \E i \in DOMAIN transactions :
    /\ get(userMappings, transactions[i].merchant) \notin CategorySet \cup {Null}
    /\ transactions[i].category = "Transport & Fuel"

(***************************************************************************)
(* Properties of the keyword rules and the refund pattern (SpecCat)        *)
(***************************************************************************)
\* the categories that have a keyword in the merchant of the call
catKeywordCategories ==
  {rules[r].category : r \in {q \in DOMAIN rules :
      \E j \in DOMAIN rules[q].keywords : includes(catLower, rules[q].keywords[j])}}

\* the keyword rule decides the call: the merchant is not empty, the refund
\* rule does not apply and the mapping gives no category of the fixed set
catKeywordDecides ==
  /\ catDone /\ catMerchant # <<>>
  /\ ~refundRule(catLower, arg.amount)
  /\ findMappedCategory(catMerchant, arg.userMappings) \notin CategorySet

\* the first label of DEFAULT_CATEGORIES that is in S
firstInCategoryOrder(S) ==
  DEFAULT_CATEGORIES[Min({i \in DOMAIN DEFAULT_CATEGORIES : DEFAULT_CATEGORIES[i] \in S})]

\* C13: when the keyword rule decides and keywords of more than one category
\* occur in the merchant, the result is the category that comes first in the
\* order of the category set.
C13_KeywordTieBreakInCategoryOrder ==
  (catKeywordDecides /\ Cardinality(catKeywordCategories) > 1)
    => res = firstInCategoryOrder(catKeywordCategories)

\* a refund word occurs in lower with a word boundary before and after it
refundWholeWord(lower) ==
  \E w \in DOMAIN refundWords : \E i \in 1..Len(lower) :
    /\ occursAt(lower, refundWords[w], i)
    /\ wordBoundaryAfter(lower, i - 1)
    /\ wordBoundaryAfter(lower, i + Len(refundWords[w]) - 1)

\* C14: for an amount that is not negative the refund rule gives
\* "Payment/Credit" exactly when a refund word occurs in the lower-cased
\* merchant as a whole word.
C14_RefundWordIsWholeWord ==
  ( /\ catDone /\ arg.amount >= 0 /\ catMerchant # <<>>
    /\ findMappedCategory(catMerchant, arg.userMappings) # "Payment/Credit" )
    => (res = "Payment/Credit" <=> refundWholeWord(catLower))

(***************************************************************************)
(* Properties of the date normalizer (SpecDate)                            *)
(***************************************************************************)
dateDone == pc = "done" /\ arg.fn = "toIsoDate"

\* C15: the result is null or has the shape YYYY-MM-DD; an empty or
\* whitespace-only input and an input in no supported format give null.
C15_DateIsNullOrIsoShape ==
  dateDone =>
    /\ res = NoStr \/ isYyyyMmDd(res)
    /\ arg.in.kind = "other" => res = NoStr

\* the year the input of the call stands for, as text
dateYearText ==
  IF arg.in.yearSrc = "fallback" THEN arg.fallbackYear.text ELSE arg.in.yearText

\* C16: an input that is a YYYY-MM-DD date is returned as it is; an input with
\* a month, a day and a year gives that year (2000 + y for a two-digit y)
\* whatever the fallback year, and an input without a year gives the fallback
\* year; month and day are padded to two digits.
C16_FallbackYearOnlyWithoutYear ==
  dateDone =>
    /\ (arg.in.kind = "iso" /\ ~arg.in.ws) => res = arg.in.value
    /\ (arg.in.kind \in {"mdy", "mon"} /\ arg.in.yearSrc # "unstated") =>
         res = dateYearText \o arg.in.tail
    /\ (arg.in.kind = "iso" \/ arg.in.yearSrc = "explicit") =>
         \A fy \in DateFallbackYears : toIsoDate(arg.in.value, fy.num) = res

\* C16 happens: a date with a two-digit year and whitespace around it is
\* resolved to a year that is not the fallback year.
C16_Witness ==
  /\ dateDone /\ arg.in.kind = "mdy" /\ arg.in.ws
  /\ arg.in.yearSrc = "explicit" /\ arg.in.yearText = <<"2","0","0","5">>
  /\ arg.fallbackYear.num = 2026
  /\ res = <<"2","0","0","5","-","1","2","-","3","1">>

(***************************************************************************)
(* Properties of the amounts of the CSV reader (SpecCsv)                   *)
(***************************************************************************)
\* the layout of the call has a column of that kind
csvHas(col) == \E k \in DOMAIN arg.layout : arg.layout[k].col = col

\* the amount the row stands for under the layout of the call
csvRowAmount(row) ==
  IF csvHas("amount") /\ ~blank(row.amount) THEN row.amountNum
  ELSE (IF csvHas("debit") THEN row.debit.num ELSE 0)
         - (IF csvHas("credit") THEN row.credit.num ELSE 0)

\* C17: the amount of a kept row is the number in its amount cell when the
\* file has an amount column and the cell is not blank, and otherwise debit
\* minus credit, "$" and "," stripped, with 0 for a missing column and for
\* a cell that is no number.
C17_CsvAmountOrDebitMinusCredit ==
  csvDone =>
    /\ Len(res) = Len(csvExpected)
    /\ \A k \in DOMAIN res : res[k].amount = Num(csvRowAmount(csvExpected[k]))

\* C17 happens: a file with debit and credit columns and no amount column has
\* a row with a credit alone, which gets a negative amount, and a row with a
\* debit written with "$" and ",".
C17_Witness ==
  /\ csvDone /\ ~csvHas("amount") /\ csvHas("credit") /\ Len(res) = 2
  /\ res[1].amount = Num(-2500) /\ res[1].merchant = <<"C","a","r","d"," ","S","e","r","v","i","c","e","s">>
  /\ res[2].amount = Num(120050)

parseDone == pc = "done" /\ arg.fn = "parseCsv"

\* a field with a character that is not white space
hasInk(c) == \E i \in DOMAIN c : c[i] \notin {" ", "\t", "\n", "\r"}

\* C18: parseCsv of a text written from rows of fields (fields quoted where
\* they hold a delimiter, a line terminator or a quote, quotes doubled, rows
\* ended by \n, \r\n or \r) gives back, in order, exactly the rows that have
\* a non-blank field, each with the fields as they were before writing.
C18_ParseCsvReadsWrittenRows ==
  parseDone => res = SelectSeq(arg.rows, LAMBDA r : \E k \in DOMAIN r : hasInk(r[k]))

C18_Witness ==
  /\ parseDone /\ ~arg.quoteAll /\ arg.eol = <<"\r","\n">> /\ Len(arg.rows) = 3
  /\ res = << << <<"\"">>, <<"c","\r","\n","d">>, <<" ","z"," ">> >>, << <<"s","a","y"," ","\"","h","i","\"">>, <<>> >> >>

payDone == pc = "done" /\ arg.fn = "normalizePaycheck"

\* the first operand that is not undefined, else the last one
RECURSIVE firstPresentFrom(_, _)
firstPresentFrom(vals, k) ==
  IF k >= Len(vals) \/ vals[k].t # "undefined" THEN vals[k]
  ELSE firstPresentFrom(vals, k + 1)

\* the value of the first listed path that the raw record holds, as a number;
\* 0 when it holds none of them
firstPresent(data, keys) ==
  numberOrZero(firstPresentFrom([k \in 1..(Len(keys) + 1) |->
                                   IF k <= Len(keys) THEN field(data, keys[k]) ELSE Undef], 1))

fsaKeys == <<"employee_fsa_contribution", "fsa_contribution", "preTaxDeductions.fsa">>
medicareKeys == <<"medicare_amount", "medicare">>
grossKeys == <<"gross_amount", "grossAmount">>

\* C19: on every import path, a raw record with a positive FSA-employee
\* contribution is normalized to medicare = 0, and a record without one keeps
\* its medicare value.
C19_FsaZeroesMedicare ==
  payDone =>
    res.medicare = IF firstPresent(arg.data, fsaKeys) > 0 THEN 0
                   ELSE firstPresent(arg.data, medicareKeys)

\* C20: a target field takes the value of the first candidate path that the
\* raw record holds, a held 0 included; it is 0 when none is held.
C20_FirstPresentCandidateWins ==
  payDone =>
    /\ res.grossAmount = firstPresent(arg.data, grossKeys)
    /\ arg.path # "ai" => res.preTaxDeductions.fsa = firstPresent(arg.data, fsaKeys)

(***************************************************************************)
(* Properties of the merchant mapping, the messages and the cache (Spec)   *)
(***************************************************************************)
\* the step is a call of updateCategory
recategorizes ==
  \E id \in {t.id : t \in Range(transactions)} \cup {absentId}, c \in RecatChoices :
    updateCategory(id, c)

\* C27: the merchant mapping changes only in a step of updateCategory; no
\* step removes or moves a key, and an entry that a step adds or changes is
\* the entry of the merchant of a transaction with the recategorized id,
\* holding the chosen category.
C27_MappingChangesOnlyByRecategorization ==
  [][/\ userMappings' # userMappings => recategorizes
     /\ \A i \in DOMAIN userMappings :
          i \in DOMAIN userMappings' /\ userMappings'[i].key = userMappings[i].key
     /\ \A e \in Range(userMappings') \ Range(userMappings) :
          \E id \in {t.id : t \in Range(transactions)}, c \in RecatChoices :
            /\ updateCategory(id, c)
            /\ e.category = c
            /\ \E j \in DOMAIN transactions :
                 transactions[j].id = id /\ transactions[j].merchant = e.key]_vars

C27_Witness ==
  /\ Len(userMappings) = 2
  /\ userMappings[1] = [key |-> <<"S","h","e","l","l"," ","G","a","s">>, category |-> "Custom"]
  /\ userMappings[2].category = "Shopping"
  /\ Len(transactions) > 0

\* the cache entries under the key of the running upload
cachedForUpload == {e \in localStorage : e.key = cacheKey(upload.selectedMonth, upload.file)}

\* C30: the extractor returns successfully only for a key that has no cache
\* entry, and its records are then stored under the key; an upload whose key
\* has an entry takes the records of the entry (an empty list too) without
\* calling the extractor and categorizes them with the mapping of the upload;
\* a failed upload leaves the cache as it was; no key has two entries.
C30_ExtractorCalledOncePerKey ==
  [][/\ (\E rawData \in AiAnswers : aiReturns(rawData)) =>
          /\ cachedForUpload = {}
          /\ \E e \in localStorage' :
               /\ localStorage' = localStorage \cup {e}
               /\ e.key = cacheKey(upload.selectedMonth, upload.file)
     /\ (hashDone /\ cachedForUpload # {}) =>
          \E e \in cachedForUpload :
            /\ upload'.pc = "idle" /\ ~isProcessing'
            /\ localStorage' = localStorage
            /\ importCompletes
            /\ lastImport'.all = finalizeTransactions(e.value, upload.userMappings, now)
            /\ transactions' = finalizedForMonth(e.value, upload.userMappings,
                                                 upload.selectedMonth, now) \o transactions
     /\ uploadFails => localStorage' = localStorage
     /\ \A e1, e2 \in localStorage' : e1.key = e2.key => e1 = e2]_vars

C30_Witness ==
  /\ Len(transactions) = 2
  /\ \A i \in DOMAIN origin : origin[i].src = "p1"
  /\ Cardinality(localStorage) = 1
  /\ upload.pc = "idle"

\* C24: of two imports by the same path that add no transaction, one that
\* extracted no record and one whose extracted records were all dropped by
\* the month filter or as "Payment/Credit" report different messages.
C24_NothingExtractedAndAllFilteredDiffer ==
  [][(/\ importCompletes
      /\ lastImport.kind = lastImport'.kind
      /\ lastImport.nAdded = 0 /\ lastImport'.nAdded = 0
      /\ \/ lastImport.nRaw = 0 /\ Len(lastImport'.all) > 0
         \/ Len(lastImport.all) > 0 /\ lastImport'.nRaw = 0)
       => lastImport'.msg # lastImport.msg]_vars

(***************************************************************************)
(* Properties of the paycheck migration (SpecMig)                          *)
(***************************************************************************)
migOnce == pc = "once" /\ arg.fn = "migratePaychecks"
migTwice == pc = "done" /\ arg.fn = "migratePaychecks"

PreTaxSubFields ==
  {"k401", "employer401kMatch", "hsa", "employerHsaMatch", "fsa", "employerFsaMatch",
   "healthInsurance", "other"}

\* C21: after one run of the migration every paycheck has the eight pre-tax
\* sub-fields and has medicare = 0 when its fsa is positive, and a run on
\* that result gives the same collection again; the second run of the model
\* does so.
C21_MigrationIdempotent ==
  /\ migOnce =>
       /\ \A i \in DOMAIN res :
            /\ DOMAIN res[i].preTaxDeductions = PreTaxSubFields
            /\ res[i].preTaxDeductions.fsa > 0 => res[i].medicare = 0
       /\ Len(res) = Len(arg.paychecks)
       /\ migratePaychecks(res) = res
  /\ migTwice => res = migratePaychecks(arg.paychecks)

C21_Witness ==
  /\ migTwice /\ Len(res) = 2
  /\ res # arg.paychecks
  /\ "fsa" \notin DOMAIN arg.paychecks[1].preTaxDeductions
  /\ arg.paychecks[2] = withoutGuard(jsonPaycheck(rawFsa))
  /\ res[2].medicare = 0

(***************************************************************************)
(* Properties of the paycheck calculator (SpecCalc)                        *)
(***************************************************************************)
fileOver(outcome) == outcome \in {"ok", "empty", "error"}

\* the files of the running OCR import that a reader was started for
ocrStarted == calc.ocr.reading \cup calc.ocr.loaded

\* C22: in the multi-file paycheck upload and in the multi-file OCR import
\* the files are handled strictly one after another: file k+1 is not
\* started before file k is over.
C22_FilesOneAfterAnother ==
  /\ calc.batch.pc # "idle" =>
       \A k \in 1..(Len(calc.batch.files) - 1) :
         calc.batch.outcome[k + 1] # "waiting" => fileOver(calc.batch.outcome[k])
  /\ calc.ocr.pc # "idle" =>
       \A k \in 1..(Len(calc.ocr.files) - 1) :
         (k + 1) \in ocrStarted => k \in calc.ocr.loaded

\* the part of C22 about the paycheck upload alone
C22_UploadOneAfterAnother ==
  calc.batch.pc # "idle" =>
    \A k \in 1..(Len(calc.batch.files) - 1) :
      calc.batch.outcome[k + 1] # "waiting" => fileOver(calc.batch.outcome[k])

\* the month that the path of a file of OcrFiles encodes
ownMonth(file) ==
  CASE file.name = "a.json" -> Text(<<"2","0","2","6","-","0","1">>)
    [] file.name = "b.json" -> Text(<<"2","0","2","6","-","0","2">>)
    [] OTHER -> Undef

\* C28: the paychecks that an OCR file adds get the pay date that the file
\* alone determines: the first day of the month of its own path, otherwise
\* the pay date of the record.
C28_PayDateFromOwnFile ==
  [][\A i \in 1..MaxOcrFiles, content \in OcrContents :
       (ocrLoaded(i, content) /\ content.ok /\ ~payThrows(content.items)) =>
         \A k \in DOMAIN content.items :
           calc'.paychecks[k].payDate
             = ocrPaycheck(content.items[k], ownMonth(calc.ocr.files[i])).payDate]_vars

\* C28 for an import of one file
C28_PayDateOfSingleFile ==
  [][\A i \in 1..MaxOcrFiles, content \in OcrContents :
       (ocrLoaded(i, content) /\ content.ok /\ ~payThrows(content.items)
          /\ Len(calc.ocr.files) = 1) =>
         \A k \in DOMAIN content.items :
           calc'.paychecks[k].payDate
             = ocrPaycheck(content.items[k], ownMonth(calc.ocr.files[i])).payDate]_vars

\* C25: a paycheck import whose payload is no JSON leaves a failure message
\* in error and leaves the paychecks and their slot alone.
C25_UnparseablePayloadOnlySetsError ==
  [][/\ calcHandleJsonImport(Unparseable) =>
          /\ calc'.error.kind = "invalidJson"
          /\ calc'.paychecks = calc.paychecks /\ calc'.slot = calc.slot
     /\ \A i \in 1..MaxOcrFiles :
          ocrLoaded(i, Unparseable) =>
            /\ calc'.error.kind = "parseFailed"
            /\ calc'.paychecks = calc.paychecks /\ calc'.slot = calc.slot]_vars

\* C25 without the message of the OCR import
C25_UnparseablePayloadKeepsData ==
  [][/\ calcHandleJsonImport(Unparseable) =>
          /\ calc'.error.kind = "invalidJson"
          /\ calc'.paychecks = calc.paychecks /\ calc'.slot = calc.slot
     /\ \A i \in 1..MaxOcrFiles :
          ocrLoaded(i, Unparseable) =>
            /\ calc'.paychecks = calc.paychecks /\ calc'.slot = calc.slot]_vars

\* the transaction side of C25: pasted text that is no JSON
C25_TransactionJsonKeepsData ==
  [][handleJsonImportInvalid =>
       /\ error' = "Invalid JSON format"
       /\ UNCHANGED <<transactions, userMappings, localStorage>>]_vars

\* the paychecks of the files of batch b that gave some, in the order of the
\* files, from file k on
RECURSIVE extractedFrom(_, _)
extractedFrom(b, k) ==
  IF k > Len(b.files) THEN <<>>
  ELSE (IF b.outcome[k] = "ok"
          THEN validatedPaychecks(b.answers[k], b.run, b.files[k])
          ELSE <<>>) \o extractedFrom(b, k + 1)

\* the files of batch b that raised an error or gave no paycheck
failedOf(b) ==
  LET failing == SelectSeq([k \in DOMAIN b.files |-> k],
                           LAMBDA k : b.outcome[k] \in {"error", "empty"})
  IN [j \in DOMAIN failing |-> b.files[failing[j]]]

batchEnds == calc.batch.pc # "idle" /\ calc'.batch.pc = "idle"

\* C23: when a paycheck upload of at most MaxFilesAtOnce files ends, every
\* file of it was attempted exactly once, the collection has gained exactly
\* the paychecks of the files that gave some (as extracted, or as the
\* migration effect rewrites the collection), and the message names exactly
\* the files that raised an error or gave no paycheck; an upload of more
\* files is refused as a whole.
C23_BatchIsolatesFailures ==
  [][/\ batchEnds =>
          LET b == calc'.lastBatch
              gained == extractedFrom(b, 1) \o calc.paychecks
          IN /\ b.pc = "finished" /\ Len(b.files) <= MaxFilesAtOnce
             /\ \A k \in DOMAIN b.files : b.attempts[k] = 1 /\ fileOver(b.outcome[k])
             /\ calc'.paychecks \in {gained, migratePaychecks(gained)}
             /\ Len(calc'.paychecks) = Len(gained)
             /\ IF failedOf(b) = <<>>
                  THEN calc'.error = NoError
                  ELSE calc'.error.kind \in {"partly", "noPaycheckData"}
                       /\ calc'.error.failed = failedOf(b)
     /\ \A files \in PayBatches :
          (calcHandleFileUpload(files) /\ Len(files) > MaxFilesAtOnce) =>
             /\ calc'.error.kind = "tooManyFiles"
             /\ calc'.batch.pc = "idle"
             /\ calc'.paychecks = calc.paychecks]_vars

C23_Witness ==
  /\ calc.lastBatch.pc = "finished"
  /\ calc.lastBatch.files = <<"b.pdf", "a.pdf", "c.pdf">>
  /\ calc.lastBatch.outcome = <<"error", "ok", "empty">>
  /\ calc.lastBatch.attempts = <<1, 1, 1>>
  /\ calc.error.kind = "partly" /\ calc.error.failed = <<"b.pdf", "c.pdf">>
  /\ Len(calc.paychecks) = 1 /\ calc.paychecks[1].id[2] = "a.pdf"

\* C23 as stated: every file of every submitted upload is attempted once
C23_EverySubmittedFileAttemptedOnce ==
  calc.lastBatch.pc \in {"finished", "rejected"} =>
    /\ calc.lastBatch.pc = "finished"
    /\ \A k \in DOMAIN calc.lastBatch.files : calc.lastBatch.attempts[k] = 1

\* C29: an upload that sets the processing flag clears it again, when every
\* read and every extraction call returns or fails and every timer fires.
C29_ProcessingFlagIsCleared == calc.isProcessing ~> ~calc.isProcessing

\* C29 for the upload of several files alone
C29_BatchFlagIsCleared ==
  (calc.isProcessing /\ calc.single.pc = "idle" /\ calc.batch.pc # "idle") ~> ~calc.isProcessing

\* the App side of C29: the flag is set exactly while handleFileUpload is
\* at one of its awaits, each of which ends in a step that clears it
C29_AppFlagOnlyWhileUploading == isProcessing <=> upload # idle

(***************************************************************************)
(* Properties of the persistence effects (SpecStore)                       *)
(***************************************************************************)
\* field f of a transaction in memory: a member that is not there reads as
\* undefined
memberOf(t, f) == IF f \in DOMAIN t THEN t[f] ELSE Null

sameFields(s, t) == \A f \in TransactionFields : memberOf(s, f) = memberOf(t, f)

noActionYet == nImports = 0 /\ nEdits = 0

C26_PaycheckSlotFollowsMemory ==
  calc.mounted => calc.slot = stringifyPaychecks(calc.paychecks)

====
